---- MODULE Spec2Model ----
(***************************************************************************)
(* Report engine of pharma-genetics-bplan: the Profit & Loss service       *)
(* (src/src/services/reports/pnl.py), the Cashflow service                 *)
(* (src/src/services/reports/cashflow.py) and the spreadsheet importer     *)
(* that fills the tables they read (src/src/services/google_sheets.py).    *)
(*                                                                         *)
(* Dates are records [year, month, day].  Money is an integer number of    *)
(* currency units; every stored amount of the model is a multiple of 20,   *)
(* so that 15% of any sum of amounts is an integer and the arithmetic of   *)
(* the services is exact (IEEE rounding of the floats is not modelled).    *)
(***************************************************************************)
EXTENDS Integers, Sequences, FiniteSets, TLC

VARIABLES
    categories,   \* table expense_categories: sequence of rows, id = index
    expenses,     \* table expenses: set of rows
    income,       \* table income: set of rows
    call,         \* the operation last called, with its arguments
    ret,          \* what that operation returned or raised
    queries       \* the storage queries that operation issued, in order

vars == <<categories, expenses, income, call, ret, queries>>

-----------------------------------------------------------------------------
(* Bounds of the model.                                                    *)

FirstYear == 2024      \* the date universe starts in January of this year
NumMonths == 15        \* and covers this many consecutive calendar months

-----------------------------------------------------------------------------
(* datetime.date                                                           *)

Date(y, m, d) == [year |-> y, month |-> m, day |-> d]

IsLeap(y) == (y % 4 = 0 /\ y % 100 # 0) \/ y % 400 = 0

DaysInMonth(y, m) ==
    IF m = 2 THEN (IF IsLeap(y) THEN 29 ELSE 28)
    ELSE IF m \in {4, 6, 9, 11} THEN 30 ELSE 31

\* date.__lt__ / __le__ / __gt__: chronological order on (year, month, day)
DateLT(a, b) ==
    \/ a.year < b.year
    \/ a.year = b.year /\ a.month < b.month
    \/ a.year = b.year /\ a.month = b.month /\ a.day < b.day

DateLE(a, b) == a = b \/ DateLT(a, b)

DateGT(a, b) == DateLT(b, a)

\* date.replace(day=1)
ReplaceDay1(d) == [d EXCEPT !.day = 1]

DecDigit == <<"0", "1", "2", "3", "4", "5", "6", "7", "8", "9">>

TwoDigit(n) == DecDigit[((n \div 10) % 10) + 1] \o DecDigit[(n % 10) + 1]

FourDigit(n) == TwoDigit(n \div 100) \o TwoDigit(n % 100)

\* date.isoformat(): 'YYYY-MM-DD'
IsoFormat(d) ==
    FourDigit(d.year) \o "-" \o TwoDigit(d.month) \o "-" \o TwoDigit(d.day)

MonthAbbr ==
    <<"jan", "feb", "mar", "apr", "may", "jun",
      "jul", "aug", "sep", "oct", "nov", "dec">>

\* Variant: the label is the month abbreviation alone ('%b').
StrftimeLabel_no_year(d) == MonthAbbr[d.month]

\* date.strftime('%b-%y').lower(): month abbreviation and 2-digit year
StrftimeLabel(d) == MonthAbbr[d.month] \o "-" \o TwoDigit(d.year % 100)

\* The dates the model draws from: the first, the 15th and the last day of
\* NumMonths consecutive months starting in January of FirstYear.
MonthOfIndex(i) ==
    [year |-> FirstYear + (i \div 12), month |-> (i % 12) + 1]

Dates ==
    UNION { LET ym == MonthOfIndex(i)
            IN  { Date(ym.year, ym.month, 1),
                  Date(ym.year, ym.month, 15),
                  Date(ym.year, ym.month, DaysInMonth(ym.year, ym.month)) }
          : i \in 0..(NumMonths - 1) }

Formats == {"yearly", "monthly"}

-----------------------------------------------------------------------------
(* Results of a call                                                       *)

Ok(v) == [status |-> "ok", value |-> v]

\* core.shared.exceptions.ValidationError(detail, context)
RaiseValidationError(detail, context) ==
    [status |-> "error", error |-> "ValidationError",
     detail |-> detail, context |-> context]

-----------------------------------------------------------------------------
(* Period planner, pnl.py                                                  *)

MAX_MONTHS == 12

MonthsDiff(start_date, end_date) ==
    (end_date.year - start_date.year) * 12 + (end_date.month - start_date.month)

\* Variant: the span limit applied at 12 instead of above 12.
Pnl_validate_date_range_ge(start_date, end_date) ==
    IF DateGT(start_date, end_date)
    THEN RaiseValidationError("start_date cannot be after end_date",
            [start_date |-> IsoFormat(start_date),
             end_date   |-> IsoFormat(end_date)])
    ELSE IF MonthsDiff(start_date, end_date) >= MAX_MONTHS
    THEN RaiseValidationError("Date range cannot exceed 12 months",
            [start_date |-> IsoFormat(start_date),
             end_date   |-> IsoFormat(end_date),
             months_difference  |-> MonthsDiff(start_date, end_date),
             max_allowed_months |-> MAX_MONTHS])
    ELSE Ok("None")

Pnl_validate_date_range(start_date, end_date) ==
    IF DateGT(start_date, end_date)
    THEN RaiseValidationError("start_date cannot be after end_date",
            [start_date |-> IsoFormat(start_date),
             end_date   |-> IsoFormat(end_date)])
    ELSE IF MonthsDiff(start_date, end_date) > MAX_MONTHS
    THEN RaiseValidationError("Date range cannot exceed 12 months",
            [start_date |-> IsoFormat(start_date),
             end_date   |-> IsoFormat(end_date),
             months_difference  |-> MonthsDiff(start_date, end_date),
             max_allowed_months |-> MAX_MONTHS])
    ELSE Ok("None")

\* "Move to next month"
NextMonth(current) ==
    IF current.month = 12
    THEN [current EXCEPT !.year = current.year + 1, !.month = 1]
    ELSE [current EXCEPT !.month = current.month + 1]

\* Variant: the loop stops before the month of the end date.
RECURSIVE Pnl_monthly_loop_lt(_, _, _)
Pnl_monthly_loop_lt(current, end, periods) ==
    IF DateLT(current, end)
    THEN Pnl_monthly_loop_lt(NextMonth(current), end,
                             Append(periods, StrftimeLabel(current)))
    ELSE periods

RECURSIVE Pnl_monthly_loop(_, _, _)
Pnl_monthly_loop(current, end, periods) ==
    IF DateLE(current, end)
    THEN Pnl_monthly_loop(NextMonth(current), end,
                          Append(periods, StrftimeLabel(current)))
    ELSE periods

Pnl_generate_monthly_periods(start_date, end_date) ==
    Pnl_monthly_loop(ReplaceDay1(start_date), ReplaceDay1(end_date), <<>>)

\* generate_pnl_report, "Generate periods"
Pnl_periods(format_type, start_date, end_date) ==
    IF format_type = "yearly"
    THEN <<"Total">>
    ELSE Pnl_generate_monthly_periods(start_date, end_date)

Pnl_assign_period(doc_date, format_type, periods) ==
    IF format_type = "yearly" THEN "Total" ELSE StrftimeLabel(doc_date)

-----------------------------------------------------------------------------
(* Period planner, cashflow.py (its own copy of the three functions)       *)

Cf_MonthsDiff(start_date, end_date) ==
    (end_date.year - start_date.year) * 12 + (end_date.month - start_date.month)

Cf_validate_date_range(start_date, end_date) ==
    IF DateGT(start_date, end_date)
    THEN RaiseValidationError("start_date cannot be after end_date",
            [start_date |-> IsoFormat(start_date),
             end_date   |-> IsoFormat(end_date)])
    ELSE IF Cf_MonthsDiff(start_date, end_date) > MAX_MONTHS
    THEN RaiseValidationError("Date range cannot exceed 12 months",
            [start_date |-> IsoFormat(start_date),
             end_date   |-> IsoFormat(end_date),
             months_difference  |-> Cf_MonthsDiff(start_date, end_date),
             max_allowed_months |-> MAX_MONTHS])
    ELSE Ok("None")

RECURSIVE Cf_monthly_loop(_, _, _)
Cf_monthly_loop(current, end, periods) ==
    IF DateLE(current, end)
    THEN Cf_monthly_loop(NextMonth(current), end,
                         Append(periods, StrftimeLabel(current)))
    ELSE periods

Cf_generate_monthly_periods(start_date, end_date) ==
    Cf_monthly_loop(ReplaceDay1(start_date), ReplaceDay1(end_date), <<>>)

\* generate_cashflow_report, "Generate periods"
Cf_periods(format_type, start_date, end_date) ==
    IF format_type = "yearly"
    THEN <<"Total">>
    ELSE Cf_generate_monthly_periods(start_date, end_date)

\* Variant: the label is formatted without the year.
Cf_assign_period_no_year(doc_date, format_type, periods) ==
    IF format_type = "yearly" THEN "Total" ELSE MonthAbbr[doc_date.month]

Cf_assign_period(doc_date, format_type, periods) ==
    IF format_type = "yearly" THEN "Total" ELSE StrftimeLabel(doc_date)

-----------------------------------------------------------------------------
(* State after construction: empty tables, nothing called yet.             *)

NoCall == [op |-> "none"]
NoRet  == [status |-> "none"]

Init ==
    /\ categories = <<>>
    /\ expenses = {}
    /\ income = {}
    /\ call = NoCall
    /\ ret = NoRet
    /\ queries = <<>>

-----------------------------------------------------------------------------
(* SpecPeriods: the period planner's functions applied to drawn inputs.    *)

Tables == <<categories, expenses, income>>

CallPnlValidateDateRange ==
    /\ call.op = "none"
    /\ \E s \in Dates, e \in Dates :
        /\ call' = [op |-> "pnl.validate_date_range",
                    start_date |-> s, end_date |-> e]
        /\ ret' = Pnl_validate_date_range(s, e)
        /\ UNCHANGED <<Tables, queries>>

CallCfValidateDateRange ==
    /\ call.op = "none"
    /\ \E s \in Dates, e \in Dates :
        /\ call' = [op |-> "cashflow.validate_date_range",
                    start_date |-> s, end_date |-> e]
        /\ ret' = Cf_validate_date_range(s, e)
        /\ UNCHANGED <<Tables, queries>>

\* The period list of a report: generate_pnl_report, "Generate periods".
CallPnlPeriods ==
    /\ call.op = "none"
    /\ \E s \in Dates, e \in Dates, f \in Formats :
        /\ call' = [op |-> "pnl.periods", format_type |-> f,
                    start_date |-> s, end_date |-> e]
        /\ ret' = Ok(Pnl_periods(f, s, e))
        /\ UNCHANGED <<Tables, queries>>

CallCfPeriods ==
    /\ call.op = "none"
    /\ \E s \in Dates, e \in Dates, f \in Formats :
        /\ call' = [op |-> "cashflow.periods", format_type |-> f,
                    start_date |-> s, end_date |-> e]
        /\ ret' = Ok(Cf_periods(f, s, e))
        /\ UNCHANGED <<Tables, queries>>

\* assign_period is applied to a record's date with the format and the
\* period list planned for the report (build_revenue_section and the others).
CallPnlAssignPeriod ==
    /\ call.op = "pnl.periods"
    /\ \E d \in Dates :
        /\ call' = [op |-> "pnl.assign_period", format_type |-> call.format_type,
                    start_date |-> call.start_date, end_date |-> call.end_date,
                    doc_date |-> d, periods |-> ret.value]
        /\ ret' = Ok(Pnl_assign_period(d, call.format_type, ret.value))
        /\ UNCHANGED <<Tables, queries>>

CallCfAssignPeriod ==
    /\ call.op = "cashflow.periods"
    /\ \E d \in Dates :
        /\ call' = [op |-> "cashflow.assign_period", format_type |-> call.format_type,
                    start_date |-> call.start_date, end_date |-> call.end_date,
                    doc_date |-> d, periods |-> ret.value]
        /\ ret' = Ok(Cf_assign_period(d, call.format_type, ret.value))
        /\ UNCHANGED <<Tables, queries>>

\* The call is over: its session is closed and its result is gone.
Return ==
    /\ call.op # "none"
    /\ call' = NoCall
    /\ ret' = NoRet
    /\ queries' = <<>>
    /\ UNCHANGED Tables

NextPeriods ==
    \/ CallPnlValidateDateRange
    \/ CallCfValidateDateRange
    \/ CallPnlPeriods
    \/ CallCfPeriods
    \/ CallPnlAssignPeriod
    \/ CallCfAssignPeriod
    \/ Return

SpecPeriods == Init /\ [][NextPeriods]_vars

-----------------------------------------------------------------------------
(* Storage: the three tables and the importer that fills them              *)
(* (google_sheets.py).                                                     *)

MaxIncome == 2         \* rows the income table may hold
MaxExpenses == 2       \* rows the expenses table may hold
MaxSheetRows == 2      \* rows of the spreadsheet one synchronisation reads

NULL == 0              \* a NULL parent_id (ids start at 1)

\* A row of the Income sheet.
IRow(row_id, d, customer, amount, grand_total, location) ==
    [row_id |-> row_id, doc_date |-> d, customer |-> customer,
     amount |-> amount, grand_total |-> grand_total, location |-> location]

\* A row of the Expenses sheet; subcategory "" is an empty cell.
ERow(row_id, d, type, category, subcategory, amount, grand_total, location) ==
    [row_id |-> row_id, doc_date |-> d, type |-> type,
     category |-> category, subcategory |-> subcategory,
     amount |-> amount, grand_total |-> grand_total, location |-> location]

\* The rows a spreadsheet may hold.  Amounts are VAT-exclusive, grand totals
\* include 7% VAT.
IncomeSheetRows ==
    { IRow(1, Date(2024, 1, 15), "Acme", 150000, 160500, "Bkk"),
      IRow(2, Date(2024, 2, 10), "Beta",  40000,  42800, "Cnx"),
      IRow(3, Date(2024, 3, 20), "Acme",  20000,  21400, "Bkk") }

ExpenseSheetRows ==
    { ERow(1, Date(2024, 1, 15), "COGS",  "Materials", "Raw Materials",
           30000,  32100, "Bkk"),
      ERow(2, Date(2024, 2, 10), "COGS",  "Materials", "",
           20000,  21400, "Bkk"),
      ERow(3, Date(2024, 1, 15), "OPEX",  "Utilities", "",
           50000,  53500, "Bkk"),
      ERow(4, Date(2024, 3, 15), "OPEX",  "Rent", "",
          200000, 214000, "Cnx"),
      ERow(5, Date(2024, 2, 10), "CAPEX", "Materials", "Raw Materials",
           60000,  64200, "Cnx"),
      ERow(6, Date(2024, 1, 10), "COGS",  "Rent", "",
           10000,  10700, "Bkk"),
      ERow(7, Date(2025, 1, 31), "OPEX",  "Rent", "Materials",
           40000,  42800, "Bkk") }

\* The categories whose name and parent are as given (filter_by(...)).
CategoryIds(cats, name, parent_id) ==
    { i \in DOMAIN cats : cats[i].name = name /\ cats[i].parent_id = parent_id }

MinOf(S) == CHOOSE x \in S : \A y \in S : x <= y

\* db.add + db.flush of a new category: the name column is unique.
AddCategory(cats, name, parent_id) ==
    IF \E i \in DOMAIN cats : cats[i].name = name
    THEN [error |-> TRUE, cats |-> cats, id |-> NULL]
    ELSE [error |-> FALSE,
          cats |-> Append(cats, [name |-> name, parent_id |-> parent_id]),
          id |-> Len(cats) + 1]

\* Variant: the parent is looked up by its name alone, whatever its parent.
get_or_create_category_any_parent(cats, category_cell, subcategory_cell) ==
    LET category == IF category_cell = "" THEN "Uncategorized" ELSE category_cell
        found == { i \in DOMAIN cats : cats[i].name = category }
        parent == IF found # {}
                  THEN [error |-> FALSE, cats |-> cats, id |-> MinOf(found)]
                  ELSE AddCategory(cats, category, NULL)
    IN  IF parent.error THEN parent
        ELSE IF subcategory_cell # "" /\ subcategory_cell # "nan"
        THEN LET child == CategoryIds(parent.cats, subcategory_cell, parent.id)
             IN  IF child # {}
                 THEN [error |-> FALSE, cats |-> parent.cats, id |-> MinOf(child)]
                 ELSE AddCategory(parent.cats, subcategory_cell, parent.id)
        ELSE parent

get_or_create_category(cats, category_cell, subcategory_cell) ==
    LET category == IF category_cell = "" THEN "Uncategorized" ELSE category_cell
        found == CategoryIds(cats, category, NULL)
        parent == IF found # {}
                  THEN [error |-> FALSE, cats |-> cats, id |-> MinOf(found)]
                  ELSE AddCategory(cats, category, NULL)
    IN  IF parent.error THEN parent
        ELSE IF subcategory_cell # "" /\ subcategory_cell # "nan"
        THEN LET child == CategoryIds(parent.cats, subcategory_cell, parent.id)
             IN  IF child # {}
                 THEN [error |-> FALSE, cats |-> parent.cats, id |-> MinOf(child)]
                 ELSE AddCategory(parent.cats, subcategory_cell, parent.id)
        ELSE parent

\* _has_changes over the compared keys
HasChanges(existing, new_data, keys) ==
    \E k \in keys : existing[k] # new_data[k]

IncomeCompareKeys == {"doc_date", "customer", "amount", "grand_total", "location"}

ExpenseCompareKeys ==
    {"doc_date", "amount", "grand_total", "type", "location", "category_id"}

\* Income sync, one row: match by row_id, update or insert.
SyncIncomeRow(tbl, row) ==
    LET existing == { x \in tbl : x.row_id = row.row_id }
    IN  IF existing # {}
        THEN IF \E x \in existing : HasChanges(x, row, IncomeCompareKeys)
             THEN (tbl \ existing) \cup {row}
             ELSE tbl
        ELSE tbl \cup {row}

\* Expenses sync, one row: resolve the category, then update or insert.
SyncExpenseRow(db, row) ==
    LET cat == get_or_create_category(db.cats, row.category, row.subcategory)
        data == [row_id |-> row.row_id, doc_date |-> row.doc_date,
                 amount |-> row.amount, grand_total |-> row.grand_total,
                 type |-> row.type, location |-> row.location,
                 category_id |-> cat.id]
        existing == { x \in db.tbl : x.row_id = row.row_id }
    IN  IF db.error \/ cat.error
        THEN [db EXCEPT !.error = TRUE]
        ELSE [error |-> FALSE, cats |-> cat.cats,
              tbl |-> IF existing # {}
                      THEN IF \E x \in existing :
                                  HasChanges(x, data, ExpenseCompareKeys)
                           THEN (db.tbl \ existing) \cup {data}
                           ELSE db.tbl
                      ELSE db.tbl \cup {data}]

FirstRow(rows) == CHOOSE r \in rows : \A q \in rows : r.row_id <= q.row_id

\* for _, row in income_df.iterrows(), in sheet order
RECURSIVE SyncIncomeRows(_, _)
SyncIncomeRows(tbl, rows) ==
    IF rows = {} THEN tbl
    ELSE SyncIncomeRows(SyncIncomeRow(tbl, FirstRow(rows)), rows \ {FirstRow(rows)})

\* for _, row in expenses_df.iterrows(), in sheet order
RECURSIVE SyncExpenseRows(_, _)
SyncExpenseRows(db, rows) ==
    IF rows = {} THEN db
    ELSE SyncExpenseRows(SyncExpenseRow(db, FirstRow(rows)), rows \ {FirstRow(rows)})

\* core.shared.exceptions.InternalServerError(detail)
RaiseInternalServerError(detail) ==
    [status |-> "error", error |-> "InternalServerError",
     detail |-> detail, context |-> <<>>]

\* sync_data: the whole sheet is read and upserted, then committed; an
\* integrity error leaves the session uncommitted, so nothing is stored.
SyncData ==
    /\ call.op = "none"
    /\ \E inc \in SUBSET IncomeSheetRows, exp \in SUBSET ExpenseSheetRows :
        /\ Cardinality(inc) + Cardinality(exp) \in 1..MaxSheetRows
        /\ \A r \in inc, q \in inc : r.row_id = q.row_id => r = q
        /\ \A r \in exp, q \in exp : r.row_id = q.row_id => r = q
        /\ LET new_income == SyncIncomeRows(income, inc)
               db == SyncExpenseRows(
                         [error |-> FALSE, cats |-> categories, tbl |-> expenses],
                         exp)
           IN  /\ Cardinality(new_income) <= MaxIncome
               /\ db.error \/ Cardinality(db.tbl) <= MaxExpenses
               /\ call' = [op |-> "sync_data"]
               /\ queries' = <<>>
               /\ IF db.error
                  THEN /\ ret' = RaiseInternalServerError("IntegrityError")
                       /\ UNCHANGED Tables
                  ELSE /\ ret' = Ok("sync_complete")
                       /\ income' = new_income
                       /\ categories' = db.cats
                       /\ expenses' = db.tbl

-----------------------------------------------------------------------------
(* DataFrame helpers shared by both services                               *)

\* The session a service works on (self.db): the three tables, and the order
\* in which a query without ORDER BY hands its rows over, which the storage
\* engine is free to choose (desc: by descending instead of ascending row).
Session(desc) ==
    [categories |-> categories, expenses |-> expenses, income |-> income,
     desc |-> desc]

\* The index a row gets in the DataFrame built from the query's results:
\* its position in the order the rows came back in.
Position(results, r, desc) ==
    Cardinality({ x \in results : IF desc THEN x.row_id > r.row_id
                                          ELSE x.row_id < r.row_id })

NA == "<NA>"           \* a missing value (None / NaN) in a text column

Range(seq) == { seq[i] : i \in DOMAIN seq }

\* Series.sum() of column col over the rows
RECURSIVE SumCol(_, _)
SumCol(rows, col) ==
    IF rows = {} THEN 0
    ELSE LET r == CHOOSE x \in rows : TRUE
         IN  r[col] + SumCol(rows \ {r}, col)

\* df.groupby('period')[col].sum().to_dict()
PeriodTotals(rows, col) ==
    [q \in { r.period : r \in rows } |->
        SumCol({ r \in rows : r.period = q }, col)]

\* {period: period_totals.get(period, 0.0) for period in periods}
ZeroFill(period_totals, periods) ==
    [p \in Range(periods) |->
        IF p \in DOMAIN period_totals THEN period_totals[p] ELSE 0]

\* {period: 0.0 for period in periods}
Zeros(periods) == [p \in Range(periods) |-> 0]

\* mapping.get(period, 0.0)
Get(mapping, p) == IF p \in DOMAIN mapping THEN mapping[p] ELSE 0

max(a, b) == IF a >= b THEN a ELSE b

-----------------------------------------------------------------------------
(* Profit & Loss service, pnl.py                                           *)

TAX_RATE_PERCENT == 15     \* TAX_RATE = Decimal("0.15")

\* ebit * float(TAX_RATE); exact on the model's amounts (multiples of 20)
TimesTaxRate(x) == (x * TAX_RATE_PERCENT) \div 100

\* Variant: the location filter is never applied to the income query.
Pnl_get_income_data_any_location(db, start_date, end_date, location) ==
    LET results == { x \in db.income :
                       /\ DateLE(start_date, x.doc_date)
                       /\ DateLE(x.doc_date, end_date) }
    IN  { [idx |-> Position(results, r, db.desc),
           customer |-> r.customer, doc_date |-> r.doc_date,
           amount |-> r.amount, location |-> r.location]
          : r \in results }

Pnl_get_income_data(db, start_date, end_date, location) ==
    LET results == { x \in db.income :
                       /\ DateLE(start_date, x.doc_date)
                       /\ DateLE(x.doc_date, end_date)
                       /\ (location # "" => x.location = location) }
    IN  { [idx |-> Position(results, r, db.desc),
           customer |-> r.customer, doc_date |-> r.doc_date,
           amount |-> r.amount, location |-> r.location]
          : r \in results }

\* Variant: the expense type filter is never applied.
Pnl_get_expense_data_any_type(db, start_date, end_date, location, expense_types) ==
    LET results == { x \in db.expenses :
                       /\ x.category_id \in DOMAIN db.categories
                       /\ DateLE(start_date, x.doc_date)
                       /\ DateLE(x.doc_date, end_date)
                       /\ (location # "" => x.location = location) }
    IN  { LET cat == db.categories[r.category_id]
          IN  [idx |-> Position(results, r, db.desc),
               doc_date |-> r.doc_date, amount |-> r.amount,
               type |-> r.type, location |-> r.location,
               category_id |-> r.category_id,
               category_name |-> cat.name, parent_id |-> cat.parent_id,
               parent_category |->
                   IF cat.parent_id # NULL /\ cat.parent_id \in DOMAIN db.categories
                   THEN db.categories[cat.parent_id].name ELSE NA,
               is_subcategory |-> cat.parent_id # NULL]
          : r \in results }

Pnl_get_expense_data(db, start_date, end_date, location, expense_types) ==
    LET results == { x \in db.expenses :
                       /\ x.category_id \in DOMAIN db.categories
                       /\ DateLE(start_date, x.doc_date)
                       /\ DateLE(x.doc_date, end_date)
                       /\ (location # "" => x.location = location)
                       /\ (expense_types # {} => x.type \in expense_types) }
    IN  { LET cat == db.categories[r.category_id]
          IN  [idx |-> Position(results, r, db.desc),
               doc_date |-> r.doc_date, amount |-> r.amount,
               type |-> r.type, location |-> r.location,
               category_id |-> r.category_id,
               category_name |-> cat.name, parent_id |-> cat.parent_id,
               parent_category |->
                   IF cat.parent_id # NULL /\ cat.parent_id \in DOMAIN db.categories
                   THEN db.categories[cat.parent_id].name ELSE NA,
               is_subcategory |-> cat.parent_id # NULL]
          : r \in results }

\* df['period'] = df['doc_date'].apply(lambda x: self.assign_period(...))
Pnl_with_period(df, format_type, periods) ==
    { r @@ [period |-> Pnl_assign_period(r.doc_date, format_type, periods)]
      : r \in df }

\* Variant: the revenue total keeps only the periods that hold a record.
Pnl_build_revenue_section_sparse(income_df, format_type, periods) ==
    IF income_df = {}
    THEN [revenue_by_customer |-> <<>>, total_net_revenue |-> Zeros(periods)]
    ELSE LET df == Pnl_with_period(income_df, format_type, periods)
         IN  [revenue_by_customer |->
                 [customer \in { r.customer : r \in df } |->
                     ZeroFill(PeriodTotals({ r \in df : r.customer = customer },
                                           "amount"), periods)],
              total_net_revenue |-> PeriodTotals(df, "amount")]

\* Variant: per customer and period the first row found is kept, not the sum.
Pnl_build_revenue_section_first_row(income_df, format_type, periods) ==
    IF income_df = {}
    THEN [revenue_by_customer |-> <<>>, total_net_revenue |-> Zeros(periods)]
    ELSE LET df == Pnl_with_period(income_df, format_type, periods)
             first == { r \in df : \A q \in df :
                          (q.customer = r.customer /\ q.period = r.period)
                             => r.idx <= q.idx }
         IN  [revenue_by_customer |->
                 [customer \in { r.customer : r \in df } |->
                     ZeroFill(PeriodTotals({ r \in first : r.customer = customer },
                                           "amount"), periods)],
              total_net_revenue |->
                 ZeroFill(PeriodTotals(df, "amount"), periods)]

Pnl_build_revenue_section(income_df, format_type, periods) ==
    IF income_df = {}
    THEN [revenue_by_customer |-> <<>>, total_net_revenue |-> Zeros(periods)]
    ELSE LET df == Pnl_with_period(income_df, format_type, periods)
         IN  [revenue_by_customer |->
                 [customer \in { r.customer : r \in df } |->
                     ZeroFill(PeriodTotals({ r \in df : r.customer = customer },
                                           "amount"), periods)],
              total_net_revenue |->
                 ZeroFill(PeriodTotals(df, "amount"), periods)]

\* Variant: the direct expenses on a parent are never looked for.
Pnl_parent_entry_no_direct(df, parent_cat, periods) ==
    LET subcategories ==
            { r.category_name :
                r \in { x \in df : x.parent_category = parent_cat
                                     /\ x.is_subcategory } }
    IN  [subcategories |->
            [subcat \in subcategories |->
                ZeroFill(PeriodTotals(
                    { x \in df : x.category_name = subcat
                                   /\ x.parent_category = parent_cat },
                    "amount"), periods)]]

\* The entry of one parent category: its subcategories and, when there are
\* direct expenses on the parent, its direct block.
Pnl_parent_entry(df, parent_cat, periods) ==
    LET subcategories ==
            { r.category_name :
                r \in { x \in df : x.parent_category = parent_cat
                                     /\ x.is_subcategory } }
        subs == [subcat \in subcategories |->
                    ZeroFill(PeriodTotals(
                        { x \in df : x.category_name = subcat
                                       /\ x.parent_category = parent_cat },
                        "amount"), periods)]
        parent_direct_expenses ==
            { x \in df : x.category_name = parent_cat /\ ~x.is_subcategory }
    IN  IF parent_direct_expenses # {}
        THEN [subcategories |-> subs,
              direct |-> ZeroFill(PeriodTotals(parent_direct_expenses, "amount"),
                                  periods)]
        ELSE [subcategories |-> subs]

\* Variant: the orphan's rows are not selected by category name.
Pnl_orphan_entry_all_rows(df, orphan_cat, periods) ==
    [direct |-> ZeroFill(PeriodTotals(df, "amount"), periods),
     subcategories |-> <<>>]

\* The entry of a category without parent that is no parent in this dataset.
Pnl_orphan_entry(df, orphan_cat, periods) ==
    LET orphan_expenses == { x \in df : x.category_name = orphan_cat }
    IN  [direct |-> ZeroFill(PeriodTotals(orphan_expenses, "amount"), periods),
         subcategories |-> <<>>]

\* Variant: the total is added up from the records the hierarchy placed.
Pnl_build_expense_section_placed_total(expense_df, format_type, periods) ==
    IF expense_df = {}
    THEN [expenses_by_category |-> <<>>, total |-> Zeros(periods)]
    ELSE LET df == Pnl_with_period(expense_df, format_type, periods)
             parent_categories ==
                 { r.parent_category : r \in { x \in df : x.parent_category # NA } }
             orphan_categories ==
                 { r.category_name : r \in { x \in df : ~x.is_subcategory } }
                    \ parent_categories
         IN  [expenses_by_category |->
                 [cat \in parent_categories \cup orphan_categories |->
                     IF cat \in parent_categories
                     THEN Pnl_parent_entry(df, cat, periods)
                     ELSE Pnl_orphan_entry(df, cat, periods)],
              total |-> ZeroFill(PeriodTotals(
                            { x \in df : x.parent_category # NA
                                           \/ ~x.is_subcategory },
                            "amount"), periods)]

Pnl_build_expense_section(expense_df, format_type, periods) ==
    IF expense_df = {}
    THEN [expenses_by_category |-> <<>>, total |-> Zeros(periods)]
    ELSE LET df == Pnl_with_period(expense_df, format_type, periods)
             parent_categories ==
                 { r.parent_category : r \in { x \in df : x.parent_category # NA } }
             orphan_categories ==
                 { r.category_name : r \in { x \in df : ~x.is_subcategory } }
                    \ parent_categories
         IN  [expenses_by_category |->
                 [cat \in parent_categories \cup orphan_categories |->
                     IF cat \in parent_categories
                     THEN Pnl_parent_entry(df, cat, periods)
                     ELSE Pnl_orphan_entry(df, cat, periods)],
              total |-> ZeroFill(PeriodTotals(df, "amount"), periods)]

\* "Calculate financial metrics": the four derived lines of the P&L
Pnl_gross_profit(periods, total_revenue, total_cogs) ==
    [p \in Range(periods) |-> Get(total_revenue, p) - Get(total_cogs, p)]

\* Variant: the operands of the subtraction are swapped.
Pnl_ebit_swapped(periods, gross_profit, total_opex) ==
    [p \in Range(periods) |-> Get(total_opex, p) - Get(gross_profit, p)]

Pnl_ebit(periods, gross_profit, total_opex) ==
    [p \in Range(periods) |-> Get(gross_profit, p) - Get(total_opex, p)]

\* Variant: the tax is not floored at zero.
Pnl_income_tax_no_floor(periods, ebit) ==
    [p \in Range(periods) |-> TimesTaxRate(Get(ebit, p))]

\* Variant: min in place of max.
Pnl_income_tax_min(periods, ebit) ==
    [p \in Range(periods) |->
        IF TimesTaxRate(Get(ebit, p)) <= 0 THEN TimesTaxRate(Get(ebit, p))
        ELSE 0]

Pnl_income_tax(periods, ebit) ==
    [p \in Range(periods) |-> max(0, TimesTaxRate(Get(ebit, p)))]

Pnl_net_earnings(periods, ebit, income_tax) ==
    [p \in Range(periods) |-> Get(ebit, p) - Get(income_tax, p)]

\* The storage queries of generate_pnl_report, in the order they are issued:
\* get_expense_data lists the categories only when it found expenses.
Pnl_query_plan(db, start_date, end_date, location_filter) ==
    <<"income">>
    \o <<"expenses.COGS">>
    \o (IF Pnl_get_expense_data(db, start_date, end_date, location_filter, {"COGS"}) # {}
        THEN <<"categories">> ELSE <<>>)
    \o <<"expenses.OPEX">>
    \o (IF Pnl_get_expense_data(db, start_date, end_date, location_filter, {"OPEX"}) # {}
        THEN <<"categories">> ELSE <<>>)

\* The report built from fetched data (everything after "Fetch data").
Pnl_build_report(income_df, cogs_df, opex_df, start_date, end_date, format_type, location) ==
    LET periods == Pnl_periods(format_type, start_date, end_date)
        revenue_section == Pnl_build_revenue_section(income_df, format_type, periods)
        cogs_section == Pnl_build_expense_section(cogs_df, format_type, periods)
        opex_section == Pnl_build_expense_section(opex_df, format_type, periods)
        gross_profit == Pnl_gross_profit(periods,
                            revenue_section.total_net_revenue, cogs_section.total)
        ebit == Pnl_ebit(periods, gross_profit, opex_section.total)
        income_tax == Pnl_income_tax(periods, ebit)
        net_earnings == Pnl_net_earnings(periods, ebit, income_tax)
    IN  [report_info |->
            [start_date |-> IsoFormat(start_date),
             end_date |-> IsoFormat(end_date),
             format |-> format_type,
             location |-> IF location = "" THEN "All" ELSE location,
             periods |-> periods],
         revenue |-> revenue_section,
         cogs |-> cogs_section,
         gross_profit |-> gross_profit,
         operating_expenses |-> opex_section,
         ebit |-> ebit,
         income_tax |-> income_tax,
         net_earnings |-> net_earnings]

\* "Fetch data" and what follows it, over the session db.
Pnl_report(db, start_date, end_date, format_type, location) ==
    LET location_filter == IF location = "All" THEN "" ELSE location
    IN  Pnl_build_report(
            Pnl_get_income_data(db, start_date, end_date, location_filter),
            Pnl_get_expense_data(db, start_date, end_date, location_filter,
                                 {"COGS"}),
            Pnl_get_expense_data(db, start_date, end_date, location_filter,
                                 {"OPEX"}),
            start_date, end_date, format_type, location)

\* An exception of the storage layer, raised by the query that failed.
RaiseStorageError(query) ==
    [status |-> "error", error |-> "StorageError",
     detail |-> query, context |-> <<>>]

\* What the model draws the arguments of a report from.
ReportRanges ==
    { <<Date(2024, 1, 15), Date(2024, 3, 15)>>,
      <<Date(2024, 1, 15), Date(2025, 1, 31)>>,
      <<Date(2024, 3, 15), Date(2024, 1, 15)>>,
      <<Date(2024, 1, 15), Date(2025, 2, 15)>> }

FormatArgs == {"yearly", "monthly", "weekly"}

\* The two report generations
ReportOps == {"generate_pnl_report", "generate_cashflow_report"}

\* "" stands for an absent location (None).
LocationArgs == {"All", "Bkk", ""}

MaxQueries == 7        \* queries one report issues at most (cashflow)

\* Variant: an unknown format is reported with the text of the range error.
Pnl_check_format_as_range(format_type) ==
    IF format_type \notin {"yearly", "monthly"}
    THEN RaiseValidationError("Date range cannot exceed 12 months", <<>>)
    ELSE Ok(format_type)

\* "Validate format"
Pnl_check_format(format_type) ==
    IF format_type \notin {"yearly", "monthly"}
    THEN RaiseValidationError("Invalid format. Must be 'yearly' or 'monthly'",
                              [provided_format |-> format_type])
    ELSE Ok(format_type)

\* Variant: a query that fails is issued a second time before giving up.
Pnl_fetch_retry(plan, fail_at) ==
    IF fail_at \in 1..Len(plan)
    THEN [ret |-> RaiseStorageError(plan[fail_at]),
          queries |-> SubSeq(plan, 1, fail_at) \o <<plan[fail_at]>>]
    ELSE [ret |-> Ok("fetched"), queries |-> plan]

\* "Fetch data": the queries of the plan are issued one after the other;
\* fail_at = k > 0 makes the k-th of them raise, which ends the fetching
\* (0: none of them fails).
Pnl_fetch(plan, fail_at) ==
    IF fail_at \in 1..Len(plan)
    THEN [ret |-> RaiseStorageError(plan[fail_at]),
          queries |-> SubSeq(plan, 1, fail_at)]
    ELSE [ret |-> Ok("fetched"), queries |-> plan]

\* Variant: the data is fetched first, the arguments are validated after.
Pnl_generate_pnl_report_fetch_first(db, start_date, end_date, format_type, location, fail_at) ==
    LET valid == Pnl_validate_date_range(start_date, end_date)
        format == Pnl_check_format(format_type)
        fetched == Pnl_fetch(Pnl_query_plan(db, start_date, end_date,
                                 IF location = "All" THEN "" ELSE location),
                             fail_at)
    IN  IF fetched.ret.status = "error" THEN fetched
        ELSE IF valid.status = "error"
        THEN [ret |-> valid, queries |-> fetched.queries]
        ELSE IF format.status = "error"
        THEN [ret |-> format, queries |-> fetched.queries]
        ELSE [ret |-> Ok(Pnl_report(db, start_date, end_date, format_type,
                                    location)),
              queries |-> fetched.queries]

\* generate_pnl_report, from its arguments to what it returns or raises,
\* with the storage queries it issued on the way.
Pnl_generate_pnl_report(db, start_date, end_date, format_type, location, fail_at) ==
    LET valid == Pnl_validate_date_range(start_date, end_date)
        format == Pnl_check_format(format_type)
        fetched == Pnl_fetch(Pnl_query_plan(db, start_date, end_date,
                                 IF location = "All" THEN "" ELSE location),
                             fail_at)
    IN  IF valid.status = "error" THEN [ret |-> valid, queries |-> <<>>]
        ELSE IF format.status = "error" THEN [ret |-> format, queries |-> <<>>]
        ELSE IF fetched.ret.status = "error" THEN fetched
        ELSE [ret |-> Ok(Pnl_report(db, start_date, end_date, format_type,
                                    location)),
              queries |-> fetched.queries]

\* Variant: the revenue of a report that was generated is stored as a row
\* of the income table.
GeneratePnlReport_saving ==
    /\ call.op = "none"
    /\ \E range \in ReportRanges, format_type \in FormatArgs,
          location \in LocationArgs, fail_at \in 0..MaxQueries,
          desc \in BOOLEAN :
        LET done == Pnl_generate_pnl_report(Session(desc), range[1], range[2],
                                            format_type, location, fail_at)
        IN  /\ fail_at <= Len(Pnl_query_plan(Session(desc), range[1], range[2],
                                  IF location = "All" THEN "" ELSE location))
            /\ call' = [op |-> "generate_pnl_report",
                        start_date |-> range[1], end_date |-> range[2],
                        format_type |-> format_type, location |-> location]
            /\ ret' = done.ret
            /\ queries' = done.queries
            /\ income' = IF done.ret.status = "ok" /\ format_type = "yearly"
                          THEN income \cup
                               {IRow(0, range[2], "report",
                                     done.ret.value.revenue
                                         .total_net_revenue["Total"],
                                     0, location)}
                          ELSE income
            /\ UNCHANGED <<categories, expenses>>

GeneratePnlReport ==
    /\ call.op = "none"
    /\ \E range \in ReportRanges, format_type \in FormatArgs,
          location \in LocationArgs, fail_at \in 0..MaxQueries,
          desc \in BOOLEAN :
        LET done == Pnl_generate_pnl_report(Session(desc), range[1], range[2],
                                            format_type, location, fail_at)
        IN  /\ fail_at <= Len(Pnl_query_plan(Session(desc), range[1], range[2],
                                  IF location = "All" THEN "" ELSE location))
            /\ call' = [op |-> "generate_pnl_report",
                        start_date |-> range[1], end_date |-> range[2],
                        format_type |-> format_type, location |-> location]
            /\ ret' = done.ret
            /\ queries' = done.queries
            /\ UNCHANGED Tables

-----------------------------------------------------------------------------
(* Cashflow service, cashflow.py                                           *)

\* Variant: the base amount is selected in place of the grand total.
Cf_get_income_data_base(db, start_date, end_date, location) ==
    LET results == { x \in db.income :
                       /\ DateLE(start_date, x.doc_date)
                       /\ DateLE(x.doc_date, end_date)
                       /\ (location # "" => x.location = location) }
    IN  { [idx |-> Position(results, r, db.desc), doc_date |-> r.doc_date,
           grand_total |-> r.amount, location |-> r.location]
          : r \in results }

Cf_get_income_data(db, start_date, end_date, location) ==
    LET results == { x \in db.income :
                       /\ DateLE(start_date, x.doc_date)
                       /\ DateLE(x.doc_date, end_date)
                       /\ (location # "" => x.location = location) }
    IN  { [idx |-> Position(results, r, db.desc), doc_date |-> r.doc_date,
           grand_total |-> r.grand_total, location |-> r.location]
          : r \in results }

\* Variant: the end date is excluded from the range.
Cf_get_expense_data_before_end(db, start_date, end_date, location, expense_types) ==
    LET results == { x \in db.expenses :
                       /\ x.category_id \in DOMAIN db.categories
                       /\ DateLE(start_date, x.doc_date)
                       /\ DateLT(x.doc_date, end_date)
                       /\ (location # "" => x.location = location)
                       /\ (expense_types # {} => x.type \in expense_types) }
    IN  { LET cat == db.categories[r.category_id]
          IN  [idx |-> Position(results, r, db.desc),
               doc_date |-> r.doc_date, grand_total |-> r.grand_total,
               type |-> r.type, location |-> r.location,
               category_id |-> r.category_id,
               category_name |-> cat.name, parent_id |-> cat.parent_id,
               parent_category |->
                   IF cat.parent_id # NULL /\ cat.parent_id \in DOMAIN db.categories
                   THEN db.categories[cat.parent_id].name ELSE NA,
               is_subcategory |-> cat.parent_id # NULL]
          : r \in results }

Cf_get_expense_data(db, start_date, end_date, location, expense_types) ==
    LET results == { x \in db.expenses :
                       /\ x.category_id \in DOMAIN db.categories
                       /\ DateLE(start_date, x.doc_date)
                       /\ DateLE(x.doc_date, end_date)
                       /\ (location # "" => x.location = location)
                       /\ (expense_types # {} => x.type \in expense_types) }
    IN  { LET cat == db.categories[r.category_id]
          IN  [idx |-> Position(results, r, db.desc),
               doc_date |-> r.doc_date, grand_total |-> r.grand_total,
               type |-> r.type, location |-> r.location,
               category_id |-> r.category_id,
               category_name |-> cat.name, parent_id |-> cat.parent_id,
               parent_category |->
                   IF cat.parent_id # NULL /\ cat.parent_id \in DOMAIN db.categories
                   THEN db.categories[cat.parent_id].name ELSE NA,
               is_subcategory |-> cat.parent_id # NULL]
          : r \in results }

Cf_with_period(df, format_type, periods) ==
    { r @@ [period |-> Cf_assign_period(r.doc_date, format_type, periods)]
      : r \in df }

Cf_build_inflows_section(income_df, format_type, periods) ==
    LET sales_income ==
            IF income_df = {}
            THEN Zeros(periods)
            ELSE ZeroFill(PeriodTotals(Cf_with_period(income_df, format_type,
                                                      periods),
                                       "grand_total"), periods)
        fundings == Zeros(periods)
        other_income == Zeros(periods)
    IN  [sales_income |-> sales_income,
         fundings |-> fundings,
         other_income |-> other_income,
         total_inflows |->
            [p \in Range(periods) |->
                sales_income[p] + fundings[p] + other_income[p]]]

Cf_parent_entry(df, parent_cat, periods) ==
    LET subcategories ==
            { r.category_name :
                r \in { x \in df : x.parent_category = parent_cat
                                     /\ x.is_subcategory } }
        subs == [subcat \in subcategories |->
                    ZeroFill(PeriodTotals(
                        { x \in df : x.category_name = subcat
                                       /\ x.parent_category = parent_cat },
                        "grand_total"), periods)]
        parent_direct_expenses ==
            { x \in df : x.category_name = parent_cat /\ ~x.is_subcategory }
    IN  IF parent_direct_expenses # {}
        THEN [subcategories |-> subs,
              direct |-> ZeroFill(PeriodTotals(parent_direct_expenses,
                                               "grand_total"), periods)]
        ELSE [subcategories |-> subs]

Cf_orphan_entry(df, orphan_cat, periods) ==
    LET orphan_expenses == { x \in df : x.category_name = orphan_cat }
    IN  [direct |-> ZeroFill(PeriodTotals(orphan_expenses, "grand_total"),
                             periods),
         subcategories |-> <<>>]

Cf_build_outflows_section(expense_df, format_type, periods) ==
    IF expense_df = {}
    THEN [expenses_by_category |-> <<>>, total |-> Zeros(periods)]
    ELSE LET df == Cf_with_period(expense_df, format_type, periods)
             parent_categories ==
                 { r.parent_category : r \in { x \in df : x.parent_category # NA } }
             orphan_categories ==
                 { r.category_name : r \in { x \in df : ~x.is_subcategory } }
                    \ parent_categories
         IN  [expenses_by_category |->
                 [cat \in parent_categories \cup orphan_categories |->
                     IF cat \in parent_categories
                     THEN Cf_parent_entry(df, cat, periods)
                     ELSE Cf_orphan_entry(df, cat, periods)],
              total |-> ZeroFill(PeriodTotals(df, "grand_total"), periods)]

\* Variant: capital expenditure is left out of the outflows.
Cf_total_outflows_no_capex(periods, total_cogs, total_opex, total_capex) ==
    [p \in Range(periods) |-> Get(total_cogs, p) + Get(total_opex, p)]

\* "Total outflows = COGS + OPEX + CAPEX"
Cf_total_outflows(periods, total_cogs, total_opex, total_capex) ==
    [p \in Range(periods) |->
        Get(total_cogs, p) + Get(total_opex, p) + Get(total_capex, p)]

\* "Net cashflow = Inflows - Outflows"
Cf_net_cashflow(periods, total_inflows, total_outflows) ==
    [p \in Range(periods) |-> Get(total_inflows, p) - Get(total_outflows, p)]

\* Variant: every period opens with the caller's opening balance.
RECURSIVE Cf_balance_loop_no_carry(_, _, _, _)
Cf_balance_loop_no_carry(periods, i, net_cashflow, acc) ==
    IF i > Len(periods) THEN acc
    ELSE LET period == periods[i]
             closing == acc.cumulative_balance + Get(net_cashflow, period)
         IN  Cf_balance_loop_no_carry(periods, i + 1, net_cashflow,
                [opening |-> (period :> acc.cumulative_balance) @@ acc.opening,
                 closing |-> (period :> closing) @@ acc.closing,
                 cumulative_balance |-> acc.cumulative_balance])

\* "For monthly, calculate cumulative balances": the loop over the periods,
\* from the i-th on; acc holds the two dictionaries and the running balance.
RECURSIVE Cf_balance_loop(_, _, _, _)
Cf_balance_loop(periods, i, net_cashflow, acc) ==
    IF i > Len(periods) THEN acc
    ELSE LET period == periods[i]
             closing == acc.cumulative_balance + Get(net_cashflow, period)
         IN  Cf_balance_loop(periods, i + 1, net_cashflow,
                [opening |-> (period :> acc.cumulative_balance) @@ acc.opening,
                 closing |-> (period :> closing) @@ acc.closing,
                 cumulative_balance |-> closing])

\* "Calculate opening and closing balances"
Cf_balances(format_type, periods, opening_balance, net_cashflow) ==
    IF format_type = "yearly"
    THEN [opening |-> ("Total" :> opening_balance),
          closing |-> ("Total" :> (opening_balance + Get(net_cashflow, "Total")))]
    ELSE LET acc == Cf_balance_loop(periods, 1, net_cashflow,
                        [opening |-> <<>>, closing |-> <<>>,
                         cumulative_balance |-> opening_balance])
         IN  [opening |-> acc.opening, closing |-> acc.closing]

Cf_query_plan(db, start_date, end_date, location_filter) ==
    <<"income">>
    \o <<"expenses.COGS">>
    \o (IF Cf_get_expense_data(db, start_date, end_date, location_filter, {"COGS"}) # {}
        THEN <<"categories">> ELSE <<>>)
    \o <<"expenses.OPEX">>
    \o (IF Cf_get_expense_data(db, start_date, end_date, location_filter, {"OPEX"}) # {}
        THEN <<"categories">> ELSE <<>>)
    \o <<"expenses.CAPEX">>
    \o (IF Cf_get_expense_data(db, start_date, end_date, location_filter, {"CAPEX"}) # {}
        THEN <<"categories">> ELSE <<>>)

\* The report built from fetched data (everything after "Fetch data").
Cf_build_report(income_df, cogs_df, opex_df, capex_df, start_date, end_date, format_type, location, opening_balance) ==
    LET periods == Cf_periods(format_type, start_date, end_date)
        inflows == Cf_build_inflows_section(income_df, format_type, periods)
        cogs_section == Cf_build_outflows_section(cogs_df, format_type, periods)
        opex_section == Cf_build_outflows_section(opex_df, format_type, periods)
        capex_section == Cf_build_outflows_section(capex_df, format_type, periods)
        total_outflows == Cf_total_outflows(periods, cogs_section.total,
                              opex_section.total, capex_section.total)
        net_cashflow == Cf_net_cashflow(periods, inflows.total_inflows,
                                        total_outflows)
        balances == Cf_balances(format_type, periods, opening_balance,
                                net_cashflow)
    IN  [report_info |->
            [start_date |-> IsoFormat(start_date),
             end_date |-> IsoFormat(end_date),
             format |-> format_type,
             location |-> IF location = "" THEN "All" ELSE location,
             periods |-> periods],
         cash_inflows |-> inflows,
         cash_outflows |->
            [cogs |-> cogs_section,
             opex |-> opex_section,
             capex |-> capex_section,
             total_outflows |-> total_outflows],
         net_cashflow |-> net_cashflow,
         opening_balance |-> balances.opening,
         closing_balance |-> balances.closing]

\* "Fetch data" and what follows it, over the session db.
Cf_report(db, start_date, end_date, format_type, location, opening_balance) ==
    LET location_filter == IF location = "All" THEN "" ELSE location
    IN  Cf_build_report(
            Cf_get_income_data(db, start_date, end_date, location_filter),
            Cf_get_expense_data(db, start_date, end_date, location_filter,
                                {"COGS"}),
            Cf_get_expense_data(db, start_date, end_date, location_filter,
                                {"OPEX"}),
            Cf_get_expense_data(db, start_date, end_date, location_filter,
                                {"CAPEX"}),
            start_date, end_date, format_type, location, opening_balance)

OpeningBalanceArgs == {0, 1000}

\* Variant: an unknown format is let through (and treated as monthly).
Cf_check_format_lenient(format_type) ==
    Ok(format_type)

\* "Validate format"
Cf_check_format(format_type) ==
    IF format_type \notin {"yearly", "monthly"}
    THEN RaiseValidationError("Invalid format. Must be 'yearly' or 'monthly'",
                              [provided_format |-> format_type])
    ELSE Ok(format_type)

\* "Fetch data"
Cf_fetch(plan, fail_at) ==
    IF fail_at \in 1..Len(plan)
    THEN [ret |-> RaiseStorageError(plan[fail_at]),
          queries |-> SubSeq(plan, 1, fail_at)]
    ELSE [ret |-> Ok("fetched"), queries |-> plan]

Cf_generate_cashflow_report(db, start_date, end_date, format_type, location, opening_balance, fail_at) ==
    LET valid == Cf_validate_date_range(start_date, end_date)
        format == Cf_check_format(format_type)
        fetched == Cf_fetch(Cf_query_plan(db, start_date, end_date,
                                IF location = "All" THEN "" ELSE location),
                            fail_at)
    IN  IF valid.status = "error" THEN [ret |-> valid, queries |-> <<>>]
        ELSE IF format.status = "error" THEN [ret |-> format, queries |-> <<>>]
        ELSE IF fetched.ret.status = "error" THEN fetched
        ELSE [ret |-> Ok(Cf_report(db, start_date, end_date, format_type,
                                   location, opening_balance)),
              queries |-> fetched.queries]

GenerateCashflowReport ==
    /\ call.op = "none"
    /\ \E range \in ReportRanges, format_type \in FormatArgs,
          location \in LocationArgs, opening_balance \in OpeningBalanceArgs,
          fail_at \in 0..MaxQueries, desc \in BOOLEAN :
        LET done == Cf_generate_cashflow_report(Session(desc), range[1],
                        range[2], format_type, location, opening_balance,
                        fail_at)
        IN  /\ fail_at <= Len(Cf_query_plan(Session(desc), range[1], range[2],
                                  IF location = "All" THEN "" ELSE location))
            /\ call' = [op |-> "generate_cashflow_report",
                        start_date |-> range[1], end_date |-> range[2],
                        format_type |-> format_type, location |-> location,
                        opening_balance |-> opening_balance]
            /\ ret' = done.ret
            /\ queries' = done.queries
            /\ UNCHANGED Tables

-----------------------------------------------------------------------------
(* Spec: the importer fills the tables, reports are generated from them.   *)

Next ==
    \/ SyncData
    \/ GeneratePnlReport
    \/ GenerateCashflowReport
    \/ Return

Spec == Init /\ [][Next]_vars

-----------------------------------------------------------------------------
(* The amount column as the services hold it: df['amount'].astype(float),  *)
(* IEEE 754 binary64 values, added up by groupby(...).sum().  Spec carries  *)
(* amounts as exact integers; SpecSums looks at the sums bit by bit.        *)

\* A natural number of any size: its bits, least significant first, the
\* most significant one being 1 (zero is the empty sequence).
FixedBits(n, w) == [j \in 1..w |-> (n \div 2^(j - 1)) % 2]

Bit(b, i) == IF i \in 1..Len(b) THEN b[i] ELSE 0

HighBit(b) ==
    CHOOSE n \in 0..Len(b) :
        (n = 0 \/ b[n] = 1) /\ \A i \in (n + 1)..Len(b) : b[i] = 0

\* for b holding a 1
LowBit(b) ==
    CHOOSE n \in 1..Len(b) : b[n] = 1 /\ \A i \in 1..(n - 1) : b[i] = 0

StripHigh(b) == SubSeq(b, 1, HighBit(b))

NatBits(n) == StripHigh(FixedBits(n, 31))

\* The carry into bit i of a + b: some lower bit generates it and every bit
\* in between passes it on.
Carry(a, b, i) ==
    \E j \in 1..(i - 1) :
        /\ Bit(a, j) = 1 /\ Bit(b, j) = 1
        /\ \A k \in (j + 1)..(i - 1) : Bit(a, k) # Bit(b, k)

BitsAdd(a, b) ==
    StripHigh([i \in 1..(max(Len(a), Len(b)) + 1) |->
                 (Bit(a, i) + Bit(b, i) + (IF Carry(a, b, i) THEN 1 ELSE 0)) % 2])

\* The borrow from bit i of a - b
Borrow(a, b, i) ==
    \E j \in 1..(i - 1) :
        /\ Bit(a, j) < Bit(b, j)
        /\ \A k \in (j + 1)..(i - 1) : Bit(a, k) <= Bit(b, k)

\* a - b for a >= b
BitsSub(a, b) ==
    StripHigh([i \in 1..Len(a) |->
                 (2 + Bit(a, i) - Bit(b, i) - (IF Borrow(a, b, i) THEN 1 ELSE 0)) % 2])

BitsLess(a, b) ==
    \E i \in 1..max(Len(a), Len(b)) :
        /\ Bit(a, i) < Bit(b, i)
        /\ \A k \in (i + 1)..max(Len(a), Len(b)) : Bit(a, k) = Bit(b, k)

ShiftLeft(b, k) == IF Len(b) = 0 THEN <<>> ELSE [i \in 1..k |-> 0] \o b

\* A binary64 value: (-1)^neg * m * 2^e, m odd and below 2^53; 0.0 apart.
MANT_DIG == 53         \* sys.float_info.mant_dig

Float0 == [neg |-> FALSE, m |-> <<>>, e |-> 0]

Float(neg, m, e) ==
    IF HighBit(m) = 0 THEN Float0
    ELSE [neg |-> neg, m |-> SubSeq(m, LowBit(m), HighBit(m)),
          e |-> e + LowBit(m) - 1]

\* Round (-1)^neg * m * 2^e to binary64, to nearest, ties to even; sticky
\* tells that the exact value lies above m * 2^e by less than 2^e.
RoundToFloat(neg, m, e, sticky) ==
    IF Len(m) <= MANT_DIG THEN Float(neg, m, e)
    ELSE LET k == Len(m) - MANT_DIG
             high == SubSeq(m, k + 1, Len(m))
             rest == sticky \/ \E i \in 1..(k - 1) : m[i] = 1
             up == m[k] = 1 /\ (rest \/ high[1] = 1)
         IN  Float(neg, IF up THEN BitsAdd(high, <<1>>) ELSE high, e + k)

\* x + y
FloatAdd(x, y) ==
    LET e == IF x.e <= y.e THEN x.e ELSE y.e
        a == ShiftLeft(x.m, x.e - e)
        b == ShiftLeft(y.m, y.e - e)
    IN  IF x.neg = y.neg THEN RoundToFloat(x.neg, BitsAdd(a, b), e, FALSE)
        ELSE IF a = b THEN Float0
        ELSE IF BitsLess(a, b) THEN RoundToFloat(y.neg, BitsSub(b, a), e, FALSE)
        ELSE RoundToFloat(x.neg, BitsSub(a, b), e, FALSE)

\* x - y
FloatSub(x, y) == FloatAdd(x, [y EXCEPT !.neg = ~@])

\* float(Decimal(cents) / 100): the binary64 value nearest to an amount of
\* the Numeric(12, 2) column, given in hundredths.  The fraction is expanded
\* fifteen bits at a time, sixty bits in all.
FloatOfCents(cents) ==
    LET r0 == cents % 100
        c1 == (r0 * 32768) \div 100
        r1 == (r0 * 32768) % 100
        c2 == (r1 * 32768) \div 100
        r2 == (r1 * 32768) % 100
        c3 == (r2 * 32768) \div 100
        r3 == (r2 * 32768) % 100
        c4 == (r3 * 32768) \div 100
        r4 == (r3 * 32768) % 100
        m == FixedBits(c4, 15) \o FixedBits(c3, 15) \o FixedBits(c2, 15)
                 \o FixedBits(c1, 15) \o NatBits(cents \div 100)
    IN  RoundToFloat(FALSE, StripHigh(m), -60, r4 # 0)

\* Series.sum() of one group, its values in row order, as pandas computes
\* it: up to pandas 1.2 the values are added to the running sum one by one.
RECURSIVE NaiveSum(_, _, _)
NaiveSum(values, i, sumx) ==
    IF i > Len(values) THEN sumx
    ELSE NaiveSum(values, i + 1, FloatAdd(sumx, values[i]))

\* From pandas 1.3 on, group_sum carries a Kahan compensation term along.
RECURSIVE KahanSum(_, _, _, _)
KahanSum(values, i, sumx, compensation) ==
    IF i > Len(values) THEN sumx
    ELSE LET y == FloatSub(values[i], compensation)
             t == FloatAdd(sumx, y)
         IN  KahanSum(values, i + 1, t, FloatSub(FloatSub(t, sumx), y))

GroupSum(algorithm, values) ==
    IF algorithm = "kahan" THEN KahanSum(values, 1, Float0, Float0)
    ELSE NaiveSum(values, 1, Float0)

\* The rows in the order of the DataFrame's index
InIndexOrder(rows) ==
    [i \in 1..Cardinality(rows) |->
        CHOOSE r \in rows : Cardinality({ x \in rows : x.idx < r.idx }) = i - 1]

\* df.groupby('period')[col].sum().to_dict() on the float column: each
\* group's values are added up in the order of the index.
FloatPeriodTotals(rows, col, algorithm) ==
    [q \in { r.period : r \in rows } |->
        LET group == InIndexOrder({ r \in rows : r.period = q })
        IN  GroupSum(algorithm,
                     [i \in DOMAIN group |-> FloatOfCents(group[i][col])])]

\* {period: period_totals.get(period, 0.0) for period in periods}
FloatZeroFill(period_totals, periods) ==
    [p \in Range(periods) |->
        IF p \in DOMAIN period_totals THEN period_totals[p] ELSE Float0]

\* build_revenue_section with the amounts as the floats they are
Pnl_build_revenue_section_float(income_df, format_type, periods, algorithm) ==
    IF income_df = {}
    THEN [revenue_by_customer |-> <<>>,
          total_net_revenue |-> [p \in Range(periods) |-> Float0]]
    ELSE LET df == Pnl_with_period(income_df, format_type, periods)
         IN  [revenue_by_customer |->
                 [customer \in { r.customer : r \in df } |->
                     FloatZeroFill(
                         FloatPeriodTotals({ r \in df : r.customer = customer },
                                           "amount", algorithm), periods)],
              total_net_revenue |->
                 FloatZeroFill(FloatPeriodTotals(df, "amount", algorithm),
                               periods)]

-----------------------------------------------------------------------------
(* SpecSums: build_revenue_section applied to the income rows of a period  *)
(* in every order the query may hand them over in (the queries of          *)
(* get_income_data carry no ORDER BY), the amounts given in hundredths.    *)

SumsIncome ==
    { IRow(1, Date(2024, 1, 20), "Acme", 1, 1, "Bkk"),
      IRow(2, Date(2024, 1, 20), "Acme", 4, 4, "Bkk"),
      IRow(3, Date(2024, 2, 10), "Acme", 1, 1, "Bkk"),
      IRow(4, Date(2024, 2, 10), "Beta", 150000, 160500, "Bkk") }

SumsRange == <<Date(2024, 1, 15), Date(2024, 3, 15)>>

\* Every order a set of rows can come in
Orders(S) ==
    { o \in [1..Cardinality(S) -> S] :
        \A i, j \in 1..Cardinality(S) : o[i] = o[j] => i = j }

\* The group sum of the pandas installed (no version is pinned)
GroupSumAlgorithms == {"naive", "kahan"}

CallPnlBuildRevenueSection ==
    /\ call.op = "none"
    /\ \E rows \in SUBSET SumsIncome, format_type \in Formats,
          algorithm \in GroupSumAlgorithms :
        \E results \in Orders(rows) :
            LET income_df ==
                    { [idx |-> i - 1, customer |-> results[i].customer,
                       doc_date |-> results[i].doc_date,
                       amount |-> results[i].amount,
                       location |-> results[i].location]
                      : i \in DOMAIN results }
                periods == Pnl_periods(format_type, SumsRange[1], SumsRange[2])
            IN  /\ call' = [op |-> "pnl.build_revenue_section",
                            income_df |-> income_df,
                            format_type |-> format_type, periods |-> periods,
                            group_sum |-> algorithm]
                /\ ret' = Ok(Pnl_build_revenue_section_float(
                                income_df, format_type, periods, algorithm))
    /\ UNCHANGED <<Tables, queries>>

NextSums ==
    \/ CallPnlBuildRevenueSection
    \/ Return

SpecSums == Init /\ [][NextSums]_vars

-----------------------------------------------------------------------------
(* SpecSections: the two section builders applied to datasets as           *)
(* get_expense_data hands them over, drawn from a category table that holds *)
(* a subcategory whose parent row is missing (the engine in db.py is        *)
(* created without foreign-key enforcement).                                *)

SectionCategories ==
    << [name |-> "Materials", parent_id |-> NULL],
       [name |-> "Raw Materials", parent_id |-> 1],
       [name |-> "Rent", parent_id |-> NULL],
       [name |-> "Freight", parent_id |-> 9] >>

SectionExpense(row_id, d, category_id, amount, grand_total) ==
    [row_id |-> row_id, doc_date |-> d, amount |-> amount,
     grand_total |-> grand_total, type |-> "COGS", location |-> "Bkk",
     category_id |-> category_id]

SectionExpenses ==
    { SectionExpense(1, Date(2024, 1, 15), 2, 30000, 32100),
      SectionExpense(2, Date(2024, 2, 10), 1, 20000, 21400),
      SectionExpense(3, Date(2024, 1, 20), 3, 10000, 10700),
      SectionExpense(4, Date(2024, 2, 10), 4,  5000,  5350),
      SectionExpense(5, Date(2025, 1, 31), 2,    40,    42) }

SectionDb(exp) ==
    [categories |-> SectionCategories, expenses |-> exp, income |-> {},
     desc |-> FALSE]

SectionRanges ==
    { r \in ReportRanges : Pnl_validate_date_range(r[1], r[2]).status = "ok" }

CallPnlBuildExpenseSection ==
    /\ call.op = "none"
    /\ \E exp \in SUBSET SectionExpenses, range \in SectionRanges,
          format_type \in Formats :
        LET expense_df == Pnl_get_expense_data(SectionDb(exp), range[1],
                                               range[2], "", {"COGS"})
            periods == Pnl_periods(format_type, range[1], range[2])
        IN  /\ call' = [op |-> "pnl.build_expense_section",
                        expense_df |-> expense_df,
                        format_type |-> format_type, periods |-> periods]
            /\ ret' = Ok(Pnl_build_expense_section(expense_df, format_type,
                                                   periods))
    /\ UNCHANGED <<Tables, queries>>

CallCfBuildOutflowsSection ==
    /\ call.op = "none"
    /\ \E exp \in SUBSET SectionExpenses, range \in SectionRanges,
          format_type \in Formats :
        LET expense_df == Cf_get_expense_data(SectionDb(exp), range[1],
                                              range[2], "", {"COGS"})
            periods == Cf_periods(format_type, range[1], range[2])
        IN  /\ call' = [op |-> "cashflow.build_outflows_section",
                        expense_df |-> expense_df,
                        format_type |-> format_type, periods |-> periods]
            /\ ret' = Ok(Cf_build_outflows_section(expense_df, format_type,
                                                   periods))
    /\ UNCHANGED <<Tables, queries>>

NextSections ==
    \/ CallPnlBuildExpenseSection
    \/ CallCfBuildOutflowsSection
    \/ Return

SpecSections == Init /\ [][NextSections]_vars

-----------------------------------------------------------------------------
(* Report endpoints, api/v1/reports/routes.py.  A query string is the      *)
(* sequence of its characters.                                             *)

IsDigit(c) == c \in Range(DecDigit)

DigitValue(c) == CHOOSE k \in 0..9 : DecDigit[k + 1] = c

\* The number a sequence of one to four digits writes
Number(digits) ==
    LET n == Len(digits)
    IN  (IF n >= 1 THEN DigitValue(digits[n]) ELSE 0)
          + (IF n >= 2 THEN 10 * DigitValue(digits[n - 1]) ELSE 0)
          + (IF n >= 3 THEN 100 * DigitValue(digits[n - 2]) ELSE 0)
          + (IF n >= 4 THEN 1000 * DigitValue(digits[n - 3]) ELSE 0)

\* %d of strptime: 3[0-1] | [1-2]\d | 0[1-9] | [1-9] | " "[1-9]
MatchesDay(s) ==
    \/ Len(s) = 1 /\ IsDigit(s[1]) /\ s[1] # "0"
    \/ /\ Len(s) = 2
       /\ \/ s[1] = "3" /\ s[2] \in {"0", "1"}
          \/ s[1] \in {"1", "2"} /\ IsDigit(s[2])
          \/ s[1] \in {"0", " "} /\ IsDigit(s[2]) /\ s[2] # "0"

\* %m of strptime: 1[0-2] | 0[1-9] | [1-9]
MatchesMonth(s) ==
    \/ Len(s) = 1 /\ IsDigit(s[1]) /\ s[1] # "0"
    \/ /\ Len(s) = 2
       /\ \/ s[1] = "1" /\ s[2] \in {"0", "1", "2"}
          \/ s[1] = "0" /\ IsDigit(s[2]) /\ s[2] # "0"

\* %Y of strptime: \d\d\d\d
MatchesYear(s) == Len(s) = 4 /\ \A i \in 1..4 : IsDigit(s[i])

WithoutSpace(s) == IF s[1] = " " THEN Tail(s) ELSE s

ValueError == [status |-> "error", error |-> "ValueError"]

\* datetime.strptime(date_str, "%d/%m/%Y").date(): the date, or ValueError
\* when the string does not match the format or names no calendar day.
Strptime(date_str) ==
    LET slashes == { i \in DOMAIN date_str : date_str[i] = "/" }
    IN  IF Cardinality(slashes) # 2 THEN ValueError
        ELSE LET i1 == MinOf(slashes)
                 i2 == MinOf(slashes \ {i1})
                 d == SubSeq(date_str, 1, i1 - 1)
                 m == SubSeq(date_str, i1 + 1, i2 - 1)
                 y == SubSeq(date_str, i2 + 1, Len(date_str))
             IN  IF ~(MatchesDay(d) /\ MatchesMonth(m) /\ MatchesYear(y))
                 THEN ValueError
                 ELSE IF Number(y) < 1
                         \/ Number(WithoutSpace(d))
                              > DaysInMonth(Number(y), Number(m))
                 THEN ValueError
                 ELSE Ok(Date(Number(y), Number(m), Number(WithoutSpace(d))))

\* None, for a query string and for a date
None == <<"None">>
NoDate == [none |-> TRUE]

parse_date_dd_mm_yyyy(date_str) ==
    IF date_str = None THEN Ok(NoDate)
    ELSE IF Strptime(date_str).status = "error"
    THEN RaiseValidationError(
            <<"Invalid date format: '", date_str,
              "'. Expected DD/MM/YYYY (e.g., 25/12/2025)">>,
            [provided_value |-> date_str, expected_format |-> "DD/MM/YYYY"])
    ELSE Strptime(date_str)

\* except Exception as e: raise InternalServerError(...)
RouteInternalServerError(what, e) ==
    [status |-> "error", error |-> "InternalServerError",
     detail |-> <<"Failed to generate ", what, " report: ", e.detail>>,
     context |-> [error_type |-> e.error]]

\* The head of an endpoint: the two dates are parsed and the location
\* defaults to All; the result is the error raised on the way, if any.
EndpointArguments(start_date, end_date, location) ==
    LET start_date_obj == parse_date_dd_mm_yyyy(start_date)
        end_date_obj == parse_date_dd_mm_yyyy(end_date)
        location_value == IF location # "" THEN location ELSE "All"
    IN  IF start_date_obj.status = "error"
        THEN start_date_obj
        ELSE IF end_date_obj.status = "error"
        THEN end_date_obj
        ELSE IF start_date_obj.value = NoDate \/ end_date_obj.value = NoDate
        THEN RaiseValidationError(
                 "Both start_date and end_date are required",
                 [start_date |-> start_date, end_date |-> end_date])
        ELSE Ok([start_date |-> start_date_obj.value,
                 end_date |-> end_date_obj.value,
                 location |-> location_value])

\* The rest of an endpoint, after the service call with the arguments args
\* ended as done: a ValidationError is raised again, any other exception is
\* wrapped; service is the list of the service calls made.
EndpointResponse(what, args, done) ==
    IF done.ret.status = "error" /\ done.ret.error # "ValidationError"
    THEN [ret |-> RouteInternalServerError(what, done.ret),
          queries |-> done.queries, service |-> <<args>>]
    ELSE [ret |-> done.ret, queries |-> done.queries, service |-> <<args>>]

\* An endpoint that raised before it called the service.
EndpointRaised(e) == [ret |-> e, queries |-> <<>>, service |-> <<>>]

\* The query strings the endpoints are called with: two days in the form
\* asked for, a day without leading zeros, an ISO date, the 31st of
\* February and a thirteenth month.
DateStrings ==
    { <<"1", "5", "/", "0", "1", "/", "2", "0", "2", "4">>,
      <<"3", "1", "/", "0", "1", "/", "2", "0", "2", "5">>,
      <<"5", "/", "3", "/", "2", "0", "2", "4">>,
      <<"2", "0", "2", "4", "-", "0", "1", "-", "1", "5">>,
      <<"3", "1", "/", "0", "2", "/", "2", "0", "2", "4">>,
      <<"1", "5", "/", "1", "3", "/", "2", "0", "2", "4">> }

\* GET /api/v1/reports/pnl; format passed the pattern ^(yearly|monthly)$.
get_profit_and_loss_report ==
    /\ call.op = "none"
    /\ \E start_date \in DateStrings, end_date \in DateStrings,
          format \in Formats, location \in LocationArgs,
          fail_at \in 0..MaxQueries, desc \in BOOLEAN :
        LET args == EndpointArguments(start_date, end_date, location)
            done == IF args.status = "error" THEN EndpointRaised(args)
                    ELSE EndpointResponse("P&L", args.value,
                            Pnl_generate_pnl_report(Session(desc),
                                args.value.start_date, args.value.end_date,
                                format, args.value.location, fail_at))
        IN  /\ fail_at <= Len(done.queries) + 1
            /\ call' = [op |-> "get_profit_and_loss_report",
                        start_date |-> start_date, end_date |-> end_date,
                        format |-> format, location |-> location,
                        service |-> done.service]
            /\ ret' = done.ret
            /\ queries' = done.queries
    /\ UNCHANGED Tables

\* GET /api/v1/reports/cashflow
get_cashflow_report ==
    /\ call.op = "none"
    /\ \E start_date \in DateStrings, end_date \in DateStrings,
          format \in Formats, location \in LocationArgs,
          opening_balance \in OpeningBalanceArgs,
          fail_at \in 0..MaxQueries, desc \in BOOLEAN :
        LET args == EndpointArguments(start_date, end_date, location)
            done == IF args.status = "error" THEN EndpointRaised(args)
                    ELSE EndpointResponse("cashflow", args.value,
                            Cf_generate_cashflow_report(Session(desc),
                                args.value.start_date, args.value.end_date,
                                format, args.value.location, opening_balance,
                                fail_at))
        IN  /\ fail_at <= Len(done.queries) + 1
            /\ call' = [op |-> "get_cashflow_report",
                        start_date |-> start_date, end_date |-> end_date,
                        format |-> format, location |-> location,
                        opening_balance |-> opening_balance,
                        service |-> done.service]
            /\ ret' = done.ret
            /\ queries' = done.queries
    /\ UNCHANGED Tables

NextRoutes ==
    \/ get_profit_and_loss_report
    \/ get_cashflow_report
    \/ Return

SpecRoutes == Init /\ [][NextRoutes]_vars

-----------------------------------------------------------------------------
(* SpecConcurrent: report requests served side by side.  Every request has *)
(* its own session (get_db) and its own service object, whose DataFrames   *)
(* are locals of generate_*_report; call, ret and queries hold one entry   *)
(* per request, and the tables are the ones a synchronisation left behind. *)

NumRequests == 2       \* requests in flight at the same time

Requests == 1..NumRequests

ConcRanges ==
    { <<Date(2024, 1, 15), Date(2024, 3, 15)>>,
      <<Date(2024, 3, 15), Date(2024, 1, 15)>> }

ConcFormats == {"monthly", "weekly"}

ConcLocations == {"All", "Bkk"}

ConcSynced ==
    SyncExpenseRows([error |-> FALSE, cats |-> <<>>, tbl |-> {}],
                    { x \in ExpenseSheetRows : x.row_id <= 5 })

InitConcurrent ==
    /\ categories = ConcSynced.cats
    /\ expenses = ConcSynced.tbl
    /\ income = SyncIncomeRows({}, IncomeSheetRows)
    /\ call = [r \in Requests |-> NoCall]
    /\ ret = [r \in Requests |-> NoRet]
    /\ queries = [r \in Requests |-> <<>>]

IsPnl(c) == c.op = "generate_pnl_report"

LocationFilter(c) == IF c.location = "All" THEN "" ELSE c.location

\* Variant: the DataFrame is an attribute of the service class, which the
\* requests in flight on the same service share.
Assign_shared(frames, r, name, df) ==
    [q \in DOMAIN frames |->
        IF frames[q].op = frames[r].op THEN [frames[q] EXCEPT ![name] = df]
        ELSE frames[q]]

\* income_df = ..., cogs_df = ...: an assignment to a local of request r
Assign(frames, r, name, df) == [frames EXCEPT ![r][name] = df]

\* The request ends: it raises e or returns its report.
Finish(r, result) ==
    /\ ret' = [ret EXCEPT ![r] = result]
    /\ call' = [call EXCEPT ![r].pc = "done"]

\* A request arrives: its session is opened and its service is built.
BeginRequest(r) ==
    /\ call[r].op = "none"
    /\ \E op \in ReportOps, range \in ConcRanges, format_type \in ConcFormats,
          location \in ConcLocations, desc \in BOOLEAN :
        call' = [call EXCEPT ![r] =
                    [op |-> op, start_date |-> range[1],
                     end_date |-> range[2], format_type |-> format_type,
                     location |-> location, opening_balance |-> 1000,
                     desc |-> desc, pc |-> "validate_date_range",
                     income_df |-> {}, cogs_df |-> {}, opex_df |-> {},
                     capex_df |-> {}]]
    /\ UNCHANGED <<Tables, ret, queries>>

\* "Validate date range"
StepValidateDateRange(r) ==
    /\ call[r].op # "none"
    /\ call[r].pc = "validate_date_range"
    /\ LET valid == IF IsPnl(call[r])
                    THEN Pnl_validate_date_range(call[r].start_date,
                                                 call[r].end_date)
                    ELSE Cf_validate_date_range(call[r].start_date,
                                                call[r].end_date)
       IN  IF valid.status = "error" THEN Finish(r, valid)
           ELSE /\ call' = [call EXCEPT ![r].pc = "check_format"]
                /\ UNCHANGED ret
    /\ UNCHANGED <<Tables, queries>>

\* "Validate format"
StepCheckFormat(r) ==
    /\ call[r].op # "none"
    /\ call[r].pc = "check_format"
    /\ LET format == IF IsPnl(call[r])
                     THEN Pnl_check_format(call[r].format_type)
                     ELSE Cf_check_format(call[r].format_type)
       IN  IF format.status = "error" THEN Finish(r, format)
           ELSE /\ call' = [call EXCEPT ![r].pc = "get_income_data"]
                /\ UNCHANGED ret
    /\ UNCHANGED <<Tables, queries>>

\* income_df = self.get_income_data(...); the query goes through or raises.
StepGetIncomeData(r) ==
    /\ call[r].op # "none"
    /\ call[r].pc = "get_income_data"
    /\ queries' = [queries EXCEPT ![r] = @ \o <<"income">>]
    /\ \E fails \in BOOLEAN :
        IF fails THEN Finish(r, RaiseStorageError("income"))
        ELSE LET c == call[r]
                 df == IF IsPnl(c)
                       THEN Pnl_get_income_data(Session(c.desc), c.start_date,
                                c.end_date, LocationFilter(c))
                       ELSE Cf_get_income_data(Session(c.desc), c.start_date,
                                c.end_date, LocationFilter(c))
             IN  /\ call' = [Assign(call, r, "income_df", df)
                                EXCEPT ![r].pc = "get_expense_data.COGS"]
                 /\ UNCHANGED ret
    /\ UNCHANGED Tables

ExpenseSteps ==
    [COGS  |-> [pc |-> "get_expense_data.COGS", df |-> "cogs_df"],
     OPEX  |-> [pc |-> "get_expense_data.OPEX", df |-> "opex_df"],
     CAPEX |-> [pc |-> "get_expense_data.CAPEX", df |-> "capex_df"]]

\* What follows the fetch of the expenses of a type
AfterExpenses(c, type) ==
    IF type = "COGS" THEN "get_expense_data.OPEX"
    ELSE IF type = "OPEX" /\ ~IsPnl(c) THEN "get_expense_data.CAPEX"
    ELSE "build"

\* cogs_df / opex_df / capex_df = self.get_expense_data(...): the expenses
\* query, then the categories query when there are results; fail_at tells
\* which of the two raises (0: none).
StepGetExpenseData(r) ==
    /\ call[r].op # "none"
    /\ \E type \in DOMAIN ExpenseSteps, fail_at \in 0..2 :
        LET c == call[r]
            df == IF IsPnl(c)
                  THEN Pnl_get_expense_data(Session(c.desc), c.start_date,
                           c.end_date, LocationFilter(c), {type})
                  ELSE Cf_get_expense_data(Session(c.desc), c.start_date,
                           c.end_date, LocationFilter(c), {type})
            plan == <<"expenses." \o type>>
                        \o (IF df # {} THEN <<"categories">> ELSE <<>>)
        IN  /\ c.pc = ExpenseSteps[type].pc
            /\ fail_at <= Len(plan)
            /\ IF fail_at > 0
               THEN /\ queries' = [queries EXCEPT
                                      ![r] = @ \o SubSeq(plan, 1, fail_at)]
                    /\ Finish(r, RaiseStorageError(plan[fail_at]))
               ELSE /\ queries' = [queries EXCEPT ![r] = @ \o plan]
                    /\ call' = [Assign(call, r, ExpenseSteps[type].df, df)
                                   EXCEPT ![r].pc = AfterExpenses(c, type)]
                    /\ UNCHANGED ret
    /\ UNCHANGED Tables

\* "Build sections" up to the return of the report
StepBuild(r) ==
    /\ call[r].op # "none"
    /\ call[r].pc = "build"
    /\ LET c == call[r]
       IN  Finish(r, Ok(IF IsPnl(c)
                        THEN Pnl_build_report(c.income_df, c.cogs_df,
                                 c.opex_df, c.start_date, c.end_date,
                                 c.format_type, c.location)
                        ELSE Cf_build_report(c.income_df, c.cogs_df,
                                 c.opex_df, c.capex_df, c.start_date,
                                 c.end_date, c.format_type, c.location,
                                 c.opening_balance)))
    /\ UNCHANGED <<Tables, queries>>

\* The response is sent: get_db closes the session of the request.
EndRequest(r) ==
    /\ call[r].op # "none"
    /\ call[r].pc = "done"
    /\ call' = [call EXCEPT ![r] = NoCall]
    /\ ret' = [ret EXCEPT ![r] = NoRet]
    /\ queries' = [queries EXCEPT ![r] = <<>>]
    /\ UNCHANGED Tables

NextConcurrent ==
    \E r \in Requests :
        \/ BeginRequest(r)
        \/ StepValidateDateRange(r)
        \/ StepCheckFormat(r)
        \/ StepGetIncomeData(r)
        \/ StepGetExpenseData(r)
        \/ StepBuild(r)
        \/ EndRequest(r)

SpecConcurrent == InitConcurrent /\ [][NextConcurrent]_vars

-----------------------------------------------------------------------------
(* SpecCategories: get_or_create_category called again and again on the    *)
(* category table, from the empty table on.  A call that raises is rolled  *)
(* back with everything it added; one that returns is committed.           *)

\* The cells of the category and subcategory columns ("": an empty cell)
CategoryCells == {"", "Materials", "Raw Materials", "Rent"}

SubcategoryCells == {"", "nan", "Materials", "Raw Materials", "Rent"}

CallGetOrCreateCategory ==
    /\ call.op = "none"
    /\ \E category \in CategoryCells, subcategory \in SubcategoryCells :
        LET done == get_or_create_category(categories, category, subcategory)
        IN  /\ call' = [op |-> "get_or_create_category",
                        category |-> category, subcategory |-> subcategory,
                        before |-> categories]
            /\ IF done.error
               THEN /\ ret' = RaiseInternalServerError("IntegrityError")
                    /\ UNCHANGED categories
               ELSE /\ ret' = Ok(done.id)
                    /\ categories' = done.cats
    /\ UNCHANGED <<expenses, income, queries>>

NextCategories ==
    \/ CallGetOrCreateCategory
    \/ Return

SpecCategories == Init /\ [][NextCategories]_vars

-----------------------------------------------------------------------------
(* Properties of the period planner, checked under SpecPeriods.            *)

\* The month span as the specification states it.
SpanMonths(s, e) == (e.year - s.year) * 12 + (e.month - s.month)

ValidateOps == {"pnl.validate_date_range", "cashflow.validate_date_range"}

LabelAfter(s, k) ==
    LET i == (s.month - 1) + k
    IN  MonthAbbr[(i % 12) + 1] \o "-" \o TwoDigit((s.year + (i \div 12)) % 100)

PeriodsOps == {"pnl.periods", "cashflow.periods"}

\* C3: for start <= end the monthly period list holds exactly one label per
\* calendar month from the month of start through the month of end, in
\* chronological order, without gap or repetition, also across a
\* December/January boundary; its length is the month span plus one;
\* (2024-09-15, 2024-11-03) gives sep-24, oct-24, nov-24.  For the yearly
\* format the period list is the single label Total.
C3_MonthlyPeriods ==
    /\ (call.op \in PeriodsOps /\ call.format_type = "monthly"
          /\ DateLE(call.start_date, call.end_date)) =>
        LET periods == ret.value
        IN  /\ Len(periods) = SpanMonths(call.start_date, call.end_date) + 1
            /\ \A i \in 1..Len(periods) :
                  periods[i] = LabelAfter(call.start_date, i - 1)
            /\ \A i \in 1..Len(periods), j \in 1..Len(periods) :
                  i # j => periods[i] # periods[j]
    /\ (call.op \in PeriodsOps /\ call.format_type = "yearly") =>
          ret.value = <<"Total">>
    /\ Pnl_generate_monthly_periods(Date(2024, 9, 15), Date(2024, 11, 3))
          = <<"sep-24", "oct-24", "nov-24">>
    /\ Cf_generate_monthly_periods(Date(2024, 9, 15), Date(2024, 11, 3))
          = <<"sep-24", "oct-24", "nov-24">>

\* A monthly list that crosses the December/January boundary.
C3_Witness ==
    /\ call.op = "pnl.periods"
    /\ call.format_type = "monthly"
    /\ call.start_date = Date(2024, 11, 15)
    /\ call.end_date = Date(2025, 2, 1)
    /\ ret.value = <<"nov-24", "dec-24", "jan-25", "feb-25">>

AssignOps == {"pnl.assign_period", "cashflow.assign_period"}

RangeAccepted(s, e) ==
    /\ Pnl_validate_date_range(s, e).status = "ok"
    /\ Cf_validate_date_range(s, e).status = "ok"

\* C4: for every accepted range and every date d with start <= d <= end,
\* assign_period returns a label of the planned period list: Total for
\* yearly, the label of d's own calendar month for monthly.
C4_AssignInPeriods ==
    (/\ call.op \in AssignOps
     /\ RangeAccepted(call.start_date, call.end_date)
     /\ DateLE(call.start_date, call.doc_date)
     /\ DateLE(call.doc_date, call.end_date)) =>
        /\ ret.value \in Range(call.periods)
        /\ call.format_type = "yearly" => ret.value = "Total"
        /\ call.format_type = "monthly" =>
              /\ ret.value = LabelAfter(call.doc_date, 0)
              /\ ret.value = call.periods[SpanMonths(call.start_date, call.doc_date) + 1]

\* A date in the last month of a 13-label range that crosses the year.
C4_Witness ==
    /\ call.op = "cashflow.assign_period"
    /\ call.format_type = "monthly"
    /\ call.start_date = Date(2024, 2, 15)
    /\ call.end_date = Date(2025, 2, 28)
    /\ call.doc_date = Date(2025, 2, 15)
    /\ ret.value = "feb-25"
    /\ Len(call.periods) = 13

-----------------------------------------------------------------------------
(* Properties of the reports, checked under Spec.                          *)

PnlDone == call.op = "generate_pnl_report" /\ ret.status = "ok"
CfDone  == call.op = "generate_cashflow_report" /\ ret.status = "ok"

\* The period list planned for the call in progress.
Planned ==
    IF call.format_type = "yearly" THEN {"Total"}
    ELSE { LabelAfter(call.start_date, k) :
             k \in 0..SpanMonths(call.start_date, call.end_date) }

\* Every per-period mapping of one expense section.
SectionMappings(section) ==
    {section.total}
    \cup UNION { LET entry == section.expenses_by_category[c]
                 IN  { entry.subcategories[sc] : sc \in DOMAIN entry.subcategories }
                     \cup (IF "direct" \in DOMAIN entry THEN {entry.direct} ELSE {})
               : c \in DOMAIN section.expenses_by_category }

PnlMappings(r) ==
    { r.revenue.revenue_by_customer[c] : c \in DOMAIN r.revenue.revenue_by_customer }
    \cup {r.revenue.total_net_revenue, r.gross_profit, r.ebit, r.income_tax,
          r.net_earnings}
    \cup SectionMappings(r.cogs) \cup SectionMappings(r.operating_expenses)

CfMappings(r) ==
    {r.cash_inflows.sales_income, r.cash_inflows.fundings,
     r.cash_inflows.other_income, r.cash_inflows.total_inflows,
     r.cash_outflows.total_outflows, r.net_cashflow,
     r.opening_balance, r.closing_balance}
    \cup SectionMappings(r.cash_outflows.cogs)
    \cup SectionMappings(r.cash_outflows.opex)
    \cup SectionMappings(r.cash_outflows.capex)

AllZero(m) == \A p \in DOMAIN m : m[p] = 0

\* C1: every per-period mapping of a returned P&L or cashflow report holds
\* every label of the planned period list as a key, whatever the stored data;
\* with empty tables every section value is 0.
C1_PeriodCompleteness ==
    /\ PnlDone =>
        /\ Range(ret.value.report_info.periods) = Planned
        /\ \A m \in PnlMappings(ret.value) : Planned \subseteq DOMAIN m
        /\ (income = {} /\ expenses = {}) =>
              /\ \A m \in PnlMappings(ret.value) : AllZero(m)
              /\ DOMAIN ret.value.cogs.expenses_by_category = {}
              /\ DOMAIN ret.value.operating_expenses.expenses_by_category = {}
    /\ CfDone =>
        /\ Range(ret.value.report_info.periods) = Planned
        /\ \A m \in CfMappings(ret.value) : Planned \subseteq DOMAIN m
        /\ (income = {} /\ expenses = {}) =>
              \A m \in CfMappings(ret.value)
                       \ {ret.value.opening_balance, ret.value.closing_balance} :
                  AllZero(m)

\* A 13-month report over tables whose records fall in two of the months.
C1_Witness ==
    /\ PnlDone
    /\ call.format_type = "monthly"
    /\ Len(ret.value.report_info.periods) = 13
    /\ ret.value.revenue.total_net_revenue["jan-24"] > 0
    /\ ret.value.revenue.total_net_revenue["jan-25"] = 0
    /\ ret.value.operating_expenses.total["jan-25"] > 0

\* C5: in every P&L report and every period, gross profit is net revenue
\* minus the COGS total, EBIT is gross profit minus the OPEX total, income
\* tax is 15% of EBIT floored at 0 and net earnings are EBIT minus tax;
\* revenue 150000, COGS 30000 and OPEX 50000 give 120000, 70000, 10500 and
\* 59500.
C5_PnlArithmetic ==
    /\ PnlDone =>
        LET r == ret.value
        IN  \A p \in Planned :
              /\ r.gross_profit[p] = r.revenue.total_net_revenue[p] - r.cogs.total[p]
              /\ r.ebit[p] = r.gross_profit[p] - r.operating_expenses.total[p]
              /\ 100 * r.income_tax[p] = max(0, 15 * r.ebit[p])
              /\ r.net_earnings[p] = r.ebit[p] - r.income_tax[p]
    /\ LET T == <<"Total">>
           gp == Pnl_gross_profit(T, [Total |-> 150000], [Total |-> 30000])
           eb == Pnl_ebit(T, gp, [Total |-> 50000])
           tax == Pnl_income_tax(T, eb)
       IN  /\ gp = [Total |-> 120000]
           /\ eb = [Total |-> 70000]
           /\ tax = [Total |-> 10500]
           /\ Pnl_net_earnings(T, eb, tax) = [Total |-> 59500]

\* The example as a report: revenue 150000, COGS 30000, OPEX 50000 in Total.
C5_Witness ==
    /\ PnlDone
    /\ call.format_type = "yearly"
    /\ ret.value.revenue.total_net_revenue["Total"] = 150000
    /\ ret.value.cogs.total["Total"] = 30000
    /\ ret.value.operating_expenses.total["Total"] = 50000
    /\ ret.value.gross_profit["Total"] = 120000
    /\ ret.value.ebit["Total"] = 70000
    /\ ret.value.income_tax["Total"] = 10500
    /\ ret.value.net_earnings["Total"] = 59500

\* C6: income tax is never negative; in a period with negative EBIT the tax
\* is 0 and net earnings equal EBIT; a period with positive EBIT pays the
\* full 15% of its own EBIT whatever the losses of the other periods.
C6_TaxFloor ==
    PnlDone =>
        LET r == ret.value
        IN  \A p \in Planned :
              /\ r.income_tax[p] >= 0
              /\ r.ebit[p] < 0 =>
                    r.income_tax[p] = 0 /\ r.net_earnings[p] = r.ebit[p]
              /\ r.ebit[p] >= 0 => 100 * r.income_tax[p] = 15 * r.ebit[p]

\* A loss in February followed by a profit in March that is taxed in full.
C6_Witness ==
    /\ PnlDone
    /\ call.format_type = "monthly"
    /\ ret.value.ebit["feb-24"] = -20000
    /\ ret.value.income_tax["feb-24"] = 0
    /\ ret.value.net_earnings["feb-24"] = -20000
    /\ ret.value.ebit["mar-24"] = 20000
    /\ ret.value.income_tax["mar-24"] = 3000

\* C7: in every cashflow report the first period opens with the caller's
\* opening balance, every later period opens with the closing balance of the
\* period before it, and every period closes with its opening balance plus
\* its net cashflow (the single period Total for yearly); opening 1000 with
\* net cashflow 200 and -50 gives openings 1000, 1200 and closings 1200, 1150.
C7_RunningBalance ==
    /\ CfDone =>
        LET r == ret.value
            ps == r.report_info.periods
        IN  /\ Len(ps) >= 1
            /\ call.format_type = "yearly" => ps = <<"Total">>
            /\ r.opening_balance[ps[1]] = call.opening_balance
            /\ \A i \in 2..Len(ps) :
                  r.opening_balance[ps[i]] = r.closing_balance[ps[i - 1]]
            /\ \A i \in 1..Len(ps) :
                  r.closing_balance[ps[i]]
                     = r.opening_balance[ps[i]] + r.net_cashflow[ps[i]]
    /\ LET b == Cf_balances("monthly", <<"jan-24", "feb-24">>, 1000,
                            ("jan-24" :> 200) @@ ("feb-24" :> -50))
       IN  /\ b.opening = ("jan-24" :> 1000) @@ ("feb-24" :> 1200)
           /\ b.closing = ("jan-24" :> 1200) @@ ("feb-24" :> 1150)

\* A monthly report whose balance moves up in January and down in February.
C7_Witness ==
    /\ CfDone
    /\ call.format_type = "monthly"
    /\ call.opening_balance = 1000
    /\ ret.value.net_cashflow["jan-24"] > 0
    /\ ret.value.net_cashflow["feb-24"] < 0
    /\ ret.value.opening_balance["feb-24"] = 1000 + ret.value.net_cashflow["jan-24"]
    /\ ret.value.closing_balance["mar-24"]
          = 1000 + ret.value.net_cashflow["jan-24"] + ret.value.net_cashflow["feb-24"]

\* C8: in every cashflow report and every period, total inflows are sales
\* income plus fundings plus other income, the last two being 0; total
\* outflows are the COGS, OPEX and CAPEX totals added; net cashflow is total
\* inflows minus total outflows.
C8_CashflowTotals ==
    CfDone =>
        LET r == ret.value
        IN  \A p \in Planned :
              /\ r.cash_inflows.fundings[p] = 0
              /\ r.cash_inflows.other_income[p] = 0
              /\ r.cash_inflows.total_inflows[p]
                    = r.cash_inflows.sales_income[p] + r.cash_inflows.fundings[p]
                      + r.cash_inflows.other_income[p]
              /\ r.cash_outflows.total_outflows[p]
                    = r.cash_outflows.cogs.total[p] + r.cash_outflows.opex.total[p]
                      + r.cash_outflows.capex.total[p]
              /\ r.net_cashflow[p]
                    = r.cash_inflows.total_inflows[p]
                      - r.cash_outflows.total_outflows[p]

\* A period with sales and with both a COGS and a CAPEX outflow.
C8_Witness ==
    /\ CfDone
    /\ call.format_type = "monthly"
    /\ ret.value.cash_inflows.total_inflows["feb-24"] = 42800
    /\ ret.value.cash_outflows.cogs.total["feb-24"] = 21400
    /\ ret.value.cash_outflows.capex.total["feb-24"] = 64200
    /\ ret.value.cash_outflows.total_outflows["feb-24"] = 85600
    /\ ret.value.net_cashflow["feb-24"] = -42800

\* The stored expenses of one type that the call in progress selects.
SectionRecords(type) ==
    { e \in expenses :
        /\ e.type = type
        /\ DateLE(call.start_date, e.doc_date)
        /\ DateLE(e.doc_date, call.end_date)
        /\ (call.location \notin {"All", ""} => e.location = call.location) }

\* The period a date belongs to in the call in progress.
PeriodOf(d) == IF call.format_type = "yearly" THEN "Total" ELSE LabelAfter(d, 0)

\* The sum of a column over the records that fall in period p.
SumIn(recs, col, p) == SumCol({ e \in recs : PeriodOf(e.doc_date) = p }, col)

RootIds == { i \in DOMAIN categories : categories[i].parent_id = NULL }

ChildIds(P) == { i \in DOMAIN categories : categories[i].parent_id = P }

\* The expense sections of the report just returned, each with the type of
\* its records and the column it sums.
Sections ==
    IF PnlDone
    THEN { [sec |-> ret.value.cogs, type |-> "COGS", col |-> "amount"],
           [sec |-> ret.value.operating_expenses, type |-> "OPEX",
            col |-> "amount"] }
    ELSE IF CfDone
    THEN { [sec |-> ret.value.cash_outflows.cogs, type |-> "COGS",
            col |-> "grand_total"],
           [sec |-> ret.value.cash_outflows.opex, type |-> "OPEX",
            col |-> "grand_total"],
           [sec |-> ret.value.cash_outflows.capex, type |-> "CAPEX",
            col |-> "grand_total"] }
    ELSE {}

\* C9: when a section's dataset holds records of a subcategory S of P and
\* records posted directly to P, expenses_by_category has the entry P, whose
\* subcategories block holds S with the per-period sums of S's records and
\* whose direct block holds the per-period sums of the direct records; P is
\* not turned into a direct-only entry.
C9_ParentWithDirect ==
    \A x \in Sections : \A P \in RootIds : \A S \in ChildIds(P) :
        LET recs == SectionRecords(x.type)
            Srecs == { e \in recs : e.category_id = S }
            Precs == { e \in recs : e.category_id = P }
            Pname == categories[P].name
            Sname == categories[S].name
            byCat == x.sec.expenses_by_category
        IN  (Srecs # {} /\ Precs # {}) =>
              /\ Pname \in DOMAIN byCat
              /\ Sname \in DOMAIN byCat[Pname].subcategories
              /\ "direct" \in DOMAIN byCat[Pname]
              /\ \A p \in Planned :
                    /\ byCat[Pname].subcategories[Sname][p] = SumIn(Srecs, x.col, p)
                    /\ byCat[Pname].direct[p] = SumIn(Precs, x.col, p)

\* Raw Materials in January and a direct posting to Materials in February.
C9_Witness ==
    /\ PnlDone
    /\ call.format_type = "monthly"
    /\ "Materials" \in DOMAIN ret.value.cogs.expenses_by_category
    /\ LET entry == ret.value.cogs.expenses_by_category["Materials"]
       IN  /\ DOMAIN entry = {"subcategories", "direct"}
           /\ DOMAIN entry.subcategories = {"Raw Materials"}
           /\ entry.subcategories["Raw Materials"]["jan-24"] = 30000
           /\ entry.subcategories["Raw Materials"]["feb-24"] = 0
           /\ entry.direct["jan-24"] = 0
           /\ entry.direct["feb-24"] = 20000

\* C10: a category without parent that has records in a section's dataset
\* and whose name is the parent of no record of that dataset is a top-level
\* entry with an empty subcategories block and a direct block that holds, per
\* period, the sum of the records posted directly to it and nothing else.
C10_DirectOnlyEntry ==
    \A x \in Sections : \A C \in RootIds :
        LET recs == SectionRecords(x.type)
            Crecs == { e \in recs : e.category_id = C }
            Cname == categories[C].name
            isParent == \E e \in recs :
                            LET pid == categories[e.category_id].parent_id
                            IN  pid # NULL /\ categories[pid].name = Cname
            byCat == x.sec.expenses_by_category
        IN  (Crecs # {} /\ ~isParent) =>
              /\ Cname \in DOMAIN byCat
              /\ DOMAIN byCat[Cname] = {"subcategories", "direct"}
              /\ DOMAIN byCat[Cname].subcategories = {}
              /\ \A p \in Planned : byCat[Cname].direct[p] = SumIn(Crecs, x.col, p)

\* Two categories without parent in one section, each with its own amounts.
C10_Witness ==
    /\ PnlDone
    /\ call.format_type = "monthly"
    /\ DOMAIN ret.value.operating_expenses.expenses_by_category
          = {"Utilities", "Rent"}
    /\ LET byCat == ret.value.operating_expenses.expenses_by_category
       IN  /\ "direct" \in DOMAIN byCat["Utilities"]
           /\ "direct" \in DOMAIN byCat["Rent"]
           /\ call.end_date = Date(2024, 3, 15)
           /\ byCat["Utilities"].direct["jan-24"] = 50000
           /\ byCat["Utilities"].direct["mar-24"] = 0
           /\ byCat["Rent"].direct["jan-24"] = 0
           /\ byCat["Rent"].direct["mar-24"] = 200000
           /\ DOMAIN byCat["Rent"].subcategories = {}

\* The figures of a report: everything but report_info.
PnlFigures(r) ==
    [revenue |-> r.revenue, cogs |-> r.cogs, gross_profit |-> r.gross_profit,
     operating_expenses |-> r.operating_expenses, ebit |-> r.ebit,
     income_tax |-> r.income_tax, net_earnings |-> r.net_earnings]

CfFigures(r) ==
    [cash_inflows |-> r.cash_inflows, cash_outflows |-> r.cash_outflows,
     net_cashflow |-> r.net_cashflow, opening_balance |-> r.opening_balance,
     closing_balance |-> r.closing_balance]

\* The report of the call in progress, generated again from other stored
\* data, for another location, or with the rows handed over in another order.
PnlAgain(db, location) ==
    Pnl_report(db, call.start_date, call.end_date, call.format_type, location)

CfAgain(db, location) ==
    Cf_report(db, call.start_date, call.end_date, call.format_type, location,
              call.opening_balance)

\* The stored data without the records of every location but L.
OnlyLocation(db, L) ==
    [db EXCEPT !.income = { x \in @ : x.location = L },
               !.expenses = { x \in @ : x.location = L }]

\* The stored income the call in progress selects by date.
IncomeInRange ==
    { x \in income : /\ DateLE(call.start_date, x.doc_date)
                     /\ DateLE(x.doc_date, call.end_date) }

ExpensesInRange(type) ==
    { x \in expenses : /\ x.type = type
                       /\ DateLE(call.start_date, x.doc_date)
                       /\ DateLE(x.doc_date, call.end_date) }

\* C12: a report requested for a location L holds exactly the figures of a
\* report for all locations over the stored data stripped of every record
\* whose location differs from L; a report requested for All, or without
\* location, counts the records of every location in its totals.
C12_LocationFilter ==
    /\ PnlDone =>
          IF call.location \in {"All", ""}
          THEN \A p \in Planned :
                 /\ ret.value.revenue.total_net_revenue[p]
                       = SumIn(IncomeInRange, "amount", p)
                 /\ ret.value.cogs.total[p]
                       = SumIn(ExpensesInRange("COGS"), "amount", p)
                 /\ ret.value.operating_expenses.total[p]
                       = SumIn(ExpensesInRange("OPEX"), "amount", p)
          ELSE PnlFigures(ret.value)
                 = PnlFigures(PnlAgain(OnlyLocation(Session(FALSE),
                                                    call.location), "All"))
    /\ CfDone =>
          IF call.location \in {"All", ""}
          THEN \A p \in Planned :
                 /\ ret.value.cash_inflows.sales_income[p]
                       = SumIn(IncomeInRange, "grand_total", p)
                 /\ ret.value.cash_outflows.total_outflows[p]
                       = SumIn(ExpensesInRange("COGS"), "grand_total", p)
                         + SumIn(ExpensesInRange("OPEX"), "grand_total", p)
                         + SumIn(ExpensesInRange("CAPEX"), "grand_total", p)
          ELSE CfFigures(ret.value)
                 = CfFigures(CfAgain(OnlyLocation(Session(FALSE),
                                                  call.location), "All"))

\* A report for Bkk over an income table that holds a sale in Bkk and a sale
\* in Cnx, both in range: only the sale in Bkk is counted.
C12_Witness ==
    /\ PnlDone
    /\ call.location = "Bkk"
    /\ call.format_type = "monthly"
    /\ \E x \in IncomeInRange : x.location = "Cnx" /\ x.doc_date.month = 2
    /\ ret.value.revenue.total_net_revenue["jan-24"] = 150000
    /\ ret.value.revenue.total_net_revenue["feb-24"] = 0
    /\ DOMAIN ret.value.revenue.revenue_by_customer = {"Acme"}

\* The stored income the call in progress is to count: dated from
\* start_date to end_date, both included, at the requested location.
IncomeRecords ==
    { x \in income :
        /\ DateLE(call.start_date, x.doc_date)
        /\ ~DateGT(x.doc_date, call.end_date)
        /\ (call.location \notin {"All", ""} => x.location = call.location) }

\* C13: a record counts in a report exactly when start_date <= its document
\* date <= end_date: every total of a P&L or cashflow report is, per period,
\* the sum over the stored records dated within the two bounds, the bounds
\* included, and the customers listed are those of these records.
C13_InclusiveDates ==
    /\ PnlDone =>
          /\ DOMAIN ret.value.revenue.revenue_by_customer
                = { x.customer : x \in IncomeRecords }
          /\ \A p \in Planned :
                /\ ret.value.revenue.total_net_revenue[p]
                      = SumIn(IncomeRecords, "amount", p)
                /\ ret.value.cogs.total[p]
                      = SumIn(SectionRecords("COGS"), "amount", p)
                /\ ret.value.operating_expenses.total[p]
                      = SumIn(SectionRecords("OPEX"), "amount", p)
    /\ CfDone =>
          \A p \in Planned :
            /\ ret.value.cash_inflows.sales_income[p]
                  = SumIn(IncomeRecords, "grand_total", p)
            /\ ret.value.cash_outflows.cogs.total[p]
                  = SumIn(SectionRecords("COGS"), "grand_total", p)
            /\ ret.value.cash_outflows.opex.total[p]
                  = SumIn(SectionRecords("OPEX"), "grand_total", p)
            /\ ret.value.cash_outflows.capex.total[p]
                  = SumIn(SectionRecords("CAPEX"), "grand_total", p)

\* 15 January to 15 March: a sale on the start date and rent on the end date
\* are counted, a purchase on 10 January and a sale on 20 March are not.
C13_Witness ==
    /\ CfDone
    /\ call.format_type = "monthly"
    /\ call.start_date = Date(2024, 1, 15)
    /\ call.end_date = Date(2024, 3, 15)
    /\ \E x \in income : x.doc_date = Date(2024, 3, 20)
    /\ \E x \in expenses : x.doc_date = Date(2024, 1, 10)
    /\ ret.value.cash_inflows.sales_income["jan-24"] = 160500
    /\ ret.value.cash_inflows.sales_income["mar-24"] = 0
    /\ ret.value.cash_outflows.cogs.total["jan-24"] = 0
    /\ ret.value.cash_outflows.opex.total["mar-24"] = 214000

\* The arguments of the call in progress do not pass validation.
RangeInvalid ==
    \/ DateGT(call.start_date, call.end_date)
    \/ SpanMonths(call.start_date, call.end_date) > 12

FormatInvalid == call.format_type \notin {"yearly", "monthly"}

IsValidationError == ret.status = "error" /\ ret.error = "ValidationError"

\* C14: a report generation whose date range or format is invalid ends with
\* a validation error without having issued a single storage query; a
\* generation that issued a query had passed both validations before.
C14_ValidateBeforeFetch ==
    call.op \in ReportOps =>
        /\ (RangeInvalid \/ FormatInvalid) =>
              IsValidationError /\ queries = <<>>
        /\ IsValidationError => queries = <<>>
        /\ queries # <<>> =>
              ~RangeInvalid /\ ~FormatInvalid /\ queries[1] = "income"

\* An unknown format over stored data the fetch would have found.
C14_Witness ==
    /\ call.op = "generate_pnl_report"
    /\ call.format_type = "weekly"
    /\ ~RangeInvalid
    /\ IncomeInRange # {}
    /\ IsValidationError
    /\ queries = <<>>

\* The queries a generation issues when none of them fails.
FullPlan ==
    IF call.op = "generate_pnl_report"
    THEN Pnl_query_plan(Session(FALSE), call.start_date, call.end_date,
                        IF call.location = "All" THEN "" ELSE call.location)
    ELSE Cf_query_plan(Session(FALSE), call.start_date, call.end_date,
                       IF call.location = "All" THEN "" ELSE call.location)

PnlKeys ==
    {"report_info", "revenue", "cogs", "gross_profit", "operating_expenses",
     "ebit", "income_tax", "net_earnings"}

CfKeys ==
    {"report_info", "cash_inflows", "cash_outflows", "net_cashflow",
     "opening_balance", "closing_balance"}

\* C15: a report generation ends either with a complete report, all its
\* queries issued, or with an error and no report; when a storage query
\* fails, the error returned is the error of that query, the queries issued
\* are those before it and itself, once, and nothing is fetched after it.
C15_FetchFailure ==
    call.op \in ReportOps =>
        /\ ret.status \in {"ok", "error"}
        /\ ret.status = "ok" =>
              /\ queries = FullPlan
              /\ DOMAIN ret.value
                    = IF call.op = "generate_pnl_report" THEN PnlKeys ELSE CfKeys
              /\ Range(ret.value.report_info.periods) = Planned
        /\ ret.status = "error" =>
              /\ "value" \notin DOMAIN ret
              /\ ret.error \in {"ValidationError", "StorageError"}
              /\ ret.error = "StorageError" =>
                    /\ queries # <<>>
                    /\ Len(queries) <= Len(FullPlan)
                    /\ queries = SubSeq(FullPlan, 1, Len(queries))
                    /\ ret = RaiseStorageError(queries[Len(queries)])

\* The OPEX query of a cashflow report fails after the income and COGS
\* queries went through: the CAPEX query is never issued.
C15_Witness ==
    /\ call.op = "generate_cashflow_report"
    /\ ret.status = "error"
    /\ ret.error = "StorageError"
    /\ ret.detail = "expenses.OPEX"
    /\ queries = <<"income", "expenses.COGS", "categories", "expenses.OPEX">>
    /\ Len(FullPlan) = 6

\* C16: a report generation called with a valid date range and a format
\* other than yearly or monthly fails with a validation error whose context
\* carries the format provided, and returns no report.
C16_InvalidFormat ==
    (call.op \in ReportOps /\ ~RangeInvalid /\ FormatInvalid) =>
        /\ IsValidationError
        /\ ret.detail = "Invalid format. Must be 'yearly' or 'monthly'"
        /\ ret.context = [provided_format |-> call.format_type]
        /\ "value" \notin DOMAIN ret

\* A cashflow report asked for by week.
C16_Witness ==
    /\ call.op = "generate_cashflow_report"
    /\ call.start_date = Date(2024, 1, 15)
    /\ call.end_date = Date(2025, 1, 31)
    /\ call.format_type = "weekly"
    /\ ret.status = "error"
    /\ ret.context = [provided_format |-> "weekly"]

\* The same rows handed over in another order
Reordered(df, pi) == { [r EXCEPT !.idx = pi[r.idx + 1] - 1] : r \in df }

\* C17: generation is deterministic whatever order the storage returns the
\* rows in: the revenue figures built from the rows of a query are the ones
\* built from the same rows in any other order.
C17_AnyRowOrder ==
    call.op = "pnl.build_revenue_section" =>
        \A pi \in Orders(1..Cardinality(call.income_df)) :
            ret.value = Pnl_build_revenue_section_float(
                            Reordered(call.income_df, pi), call.format_type,
                            call.periods, call.group_sum)

\* The stored data without its CAPEX expense records.
WithoutCapex(db) ==
    [db EXCEPT !.expenses = { x \in @ : x.type # "CAPEX" }]

\* C18: a P&L report is the report the same call yields over the stored data
\* stripped of its CAPEX records, in every section and metric; a cashflow
\* report counts every CAPEX record in range in its capex section and in
\* total_outflows.
C18_CapexOnlyInCashflow ==
    /\ PnlDone =>
          ret.value = PnlAgain(WithoutCapex(Session(FALSE)), call.location)
    /\ CfDone =>
          \A p \in Planned :
            LET capex == SumIn(SectionRecords("CAPEX"), "grand_total", p)
            IN  /\ ret.value.cash_outflows.capex.total[p] = capex
                /\ ret.value.cash_outflows.total_outflows[p]
                      = SumIn(SectionRecords("COGS"), "grand_total", p)
                        + SumIn(SectionRecords("OPEX"), "grand_total", p)
                        + capex

\* A P&L report over data that holds a CAPEX purchase and a COGS purchase in
\* February: only the COGS purchase is in the report.
C18_Witness ==
    /\ PnlDone
    /\ call.format_type = "monthly"
    /\ call.location = "All"
    /\ SumIn(SectionRecords("CAPEX"), "amount", "feb-24") = 60000
    /\ ret.value.cogs.total["feb-24"] = 20000
    /\ ret.value.operating_expenses.total["feb-24"] = 0
    /\ ret.value.ebit["feb-24"] = -20000

\* The stored data with one money column of every record overwritten.
Overwritten(db, col, v) ==
    [db EXCEPT !.income = { [x EXCEPT ![col] = v] : x \in @ },
               !.expenses = { [x EXCEPT ![col] = v] : x \in @ }]

\* C19: the figures of a P&L report are sums of the base amounts and stay
\* the same whatever the VAT-inclusive totals of the records are; the figures
\* of a cashflow report are sums of the VAT-inclusive totals and stay the
\* same whatever the base amounts are.
C19_BaseAndVatAmounts ==
    /\ PnlDone =>
          /\ ret.value = PnlAgain(Overwritten(Session(FALSE), "grand_total", 0),
                                  call.location)
          /\ \A p \in Planned :
                ret.value.revenue.total_net_revenue[p]
                   = SumIn(IncomeRecords, "amount", p)
    /\ CfDone =>
          /\ ret.value = CfAgain(Overwritten(Session(FALSE), "amount", 0),
                                 call.location)
          /\ \A p \in Planned :
                ret.value.cash_inflows.sales_income[p]
                   = SumIn(IncomeRecords, "grand_total", p)

\* A sale of 150000 before VAT, 160500 with VAT, in a cashflow report.
C19_Witness ==
    /\ CfDone
    /\ call.format_type = "monthly"
    /\ \E x \in IncomeRecords : x.amount = 150000 /\ x.grand_total = 160500
    /\ ret.value.cash_inflows.sales_income["jan-24"] = 160500
    /\ \E x \in SectionRecords("COGS") :
          /\ x.amount = 30000
          /\ ret.value.cash_outflows.cogs.total["jan-24"] = 32100

\* C20: every date range a report is generated for covers at most 12
\* calendar months, and a monthly report has at most 12 period columns.
\* (Does not hold: validate_date_range lets a difference of 12 between the
\* month numbers through, which is a range over 13 calendar months.)
C20_MaxTwelveMonths ==
    (call.op \in ReportOps /\ ret.status = "ok") =>
        /\ SpanMonths(call.start_date, call.end_date) + 1 <= 12
        /\ call.format_type = "monthly" =>
              Len(ret.value.report_info.periods) <= 12

-----------------------------------------------------------------------------
(* Properties of the section builders, checked under SpecSections.         *)

SectionOps == {"pnl.build_expense_section", "cashflow.build_outflows_section"}

\* The column a section builder adds up.
SectionCol ==
    IF call.op = "pnl.build_expense_section" THEN "amount" ELSE "grand_total"

\* C11: the total of an expense section holds, for every period, the sum of
\* the amounts of all records of the dataset dated in that period, whatever
\* their category or parent, a record whose category the hierarchy cannot
\* place included, and 0 for a period without record.
C11_SectionTotal ==
    call.op \in SectionOps =>
        /\ DOMAIN ret.value.total = Range(call.periods)
        /\ \A p \in Range(call.periods) :
              LET recs == { r \in call.expense_df :
                              IF call.format_type = "yearly" THEN TRUE
                              ELSE LabelAfter(r.doc_date, 0) = p }
              IN  /\ ret.value.total[p] = SumCol(recs, SectionCol)
                  /\ recs = {} => ret.value.total[p] = 0

\* February holds a direct record of Materials and a record of Freight, whose
\* parent is unknown: Freight has no entry, the total counts both.
C11_Witness ==
    /\ call.op = "pnl.build_expense_section"
    /\ call.format_type = "monthly"
    /\ Len(call.periods) = 3
    /\ DOMAIN ret.value.expenses_by_category = {"Materials"}
    /\ "direct" \in DOMAIN ret.value.expenses_by_category["Materials"]
    /\ ret.value.expenses_by_category["Materials"].direct["feb-24"] = 20000
    /\ ret.value.total["jan-24"] = 30000
    /\ ret.value.total["feb-24"] = 25000
    /\ ret.value.total["mar-24"] = 0

-----------------------------------------------------------------------------
(* Further properties of the period planner, checked under SpecPeriods.    *)

\* C21: every range error raised by validate_date_range, for start > end as
\* for a span over 12 months, carries the offending start and end dates, as
\* they were passed, and the computed month span.
C21_RangeErrorContext ==
    (call.op \in ValidateOps /\ ret.status = "error") =>
        /\ {"start_date", "end_date", "months_difference"}
              \subseteq DOMAIN ret.context
        /\ ret.context.start_date = IsoFormat(call.start_date)
        /\ ret.context.end_date = IsoFormat(call.end_date)
        /\ ret.context.months_difference
              = SpanMonths(call.start_date, call.end_date)

-----------------------------------------------------------------------------
(* Further properties of the reports, checked under Spec.                  *)

\* What a caller reads from an error value, without looking at the call.
ErrorKind(r) ==
    IF r.error = "StorageError" THEN "storage"
    ELSE IF r.error = "ValidationError"
              /\ r.detail \in {"start_date cannot be after end_date",
                               "Date range cannot exceed 12 months"}
    THEN "range"
    ELSE IF r.error = "ValidationError"
              /\ r.detail = "Invalid format. Must be 'yearly' or 'monthly'"
    THEN "format"
    ELSE "unknown"

\* What made the call in progress fail: the range is looked at first, the
\* format second, the storage last.
FailureCause ==
    IF RangeInvalid THEN "range" ELSE IF FormatInvalid THEN "format"
    ELSE "storage"

\* C22: the error of a failed report generation tells by itself what was
\* rejected: a range error, a format error and a storage failure are three
\* different values, each raised for its own cause only.
C22_DistinguishableErrors ==
    (call.op \in ReportOps /\ ret.status = "error") =>
        ErrorKind(ret) = FailureCause

\* A range of 13 months of span asked for by week: the range is what the
\* error names.
C22_Witness ==
    /\ call.op = "generate_pnl_report"
    /\ call.end_date = Date(2025, 2, 15)
    /\ call.format_type = "weekly"
    /\ ret.status = "error"
    /\ ErrorKind(ret) = "range"
    /\ ret.context.months_difference = 13

-----------------------------------------------------------------------------
(* Properties of the report endpoints, checked under SpecRoutes.           *)

RouteOps == {"get_profit_and_loss_report", "get_cashflow_report"}

\* The query string the endpoint in progress could not parse, the start
\* date being parsed first.
OffendingField ==
    IF Strptime(call.start_date).status = "error" THEN "start_date"
    ELSE IF Strptime(call.end_date).status = "error" THEN "end_date"
    ELSE "none"

\* C23: an endpoint called with a start_date or end_date that is no
\* DD/MM/YYYY date answers with a validation error that names the offending
\* field and the expected format, and does not call the report service.
\* (The message of the error is "Invalid date format: '<value>'. Expected
\* DD/MM/YYYY (e.g., 25/12/2025)"; a field is named by a key of the context.)
C23_DateParseError ==
    (call.op \in RouteOps /\ OffendingField # "none") =>
        /\ IsValidationError
        /\ ret.context.expected_format = "DD/MM/YYYY"
        /\ call.service = <<>>
        /\ queries = <<>>
        /\ OffendingField \in DOMAIN ret.context

-----------------------------------------------------------------------------
(* Properties of concurrent requests, checked under SpecConcurrent.        *)

\* What the request returns when it is served alone over the stored data
\* and no query fails.
Alone(c) ==
    IF IsPnl(c)
    THEN Pnl_generate_pnl_report(Session(c.desc), c.start_date, c.end_date,
                                 c.format_type, c.location, 0).ret
    ELSE Cf_generate_cashflow_report(Session(c.desc), c.start_date,
                                     c.end_date, c.format_type, c.location,
                                     c.opening_balance, 0).ret

\* C24: concurrent report generations do not interfere: however the steps of
\* the requests are interleaved over unchanged stored data, a request that
\* ends without a storage failure ends with what it returns when run alone,
\* and one whose query failed ends with the error of that query.
C24_NoInterference ==
    \A r \in Requests :
        (call[r].op # "none" /\ call[r].pc = "done") =>
            IF ret[r].status = "error" /\ ret[r].error = "StorageError"
            THEN ret[r] = RaiseStorageError(queries[r][Len(queries[r])])
            ELSE ret[r] = Alone(call[r])

\* The first request has its report for all locations while the second, for
\* one location, is between two of its queries with other data in hand.
C24_Witness ==
    /\ call[1].op = "generate_pnl_report"
    /\ call[1].pc = "done"
    /\ ret[1].status = "ok"
    /\ ret[1].value.revenue.total_net_revenue["feb-24"] = 40000
    /\ call[2].op = "generate_cashflow_report"
    /\ call[2].pc = "get_expense_data.OPEX"
    /\ call[2].location = "Bkk"
    /\ call[2].income_df # {}
    /\ call[2].income_df # call[1].income_df

-----------------------------------------------------------------------------
(* Further properties of the reports, checked under Spec (continued).      *)

\* C25: report generation is read-only: the step that runs a report
\* generation, to its report or to its error, leaves the stored income
\* records, expense records and categories as they were, and so does the
\* end of the call: nothing of the report is kept in the tables.
C25_ReadOnly ==
    [][((call.op = "none" /\ call'.op \in ReportOps) \/ call.op \in ReportOps)
          => /\ income' = income
             /\ expenses' = expenses
             /\ categories' = categories]_vars

\* A cashflow generation over stored data ended with the error of its third
\* query, after having read income and expenses.
C25_Witness ==
    /\ call.op = "generate_cashflow_report"
    /\ ret.status = "error"
    /\ ret.error = "StorageError"
    /\ Len(queries) = 3
    /\ income # {}
    /\ expenses # {}

-----------------------------------------------------------------------------
(* Properties of the category tree, checked under SpecCategories.          *)

IsRoot(i) == i \in DOMAIN categories /\ categories[i].parent_id = NULL

HasSubcategory(cell) == cell # "" /\ cell # "nan"

\* C26: after any sequence of get_or_create_category calls from the empty
\* table on, the tree has exactly two levels: a category is a root or the
\* child of a root; the category a call returns for a pair without
\* subcategory is a root, for a pair with one it is a child of the root of
\* that name; nodes are only added at the end of the table, two at most per
\* call; and the same call made again returns the same category and adds no
\* node.
C26_TwoLevels ==
    /\ \A i \in DOMAIN categories :
          IsRoot(i) \/ IsRoot(categories[i].parent_id)
    /\ (call.op = "get_or_create_category" /\ ret.status = "ok") =>
          LET category == IF call.category = "" THEN "Uncategorized"
                          ELSE call.category
              id == ret.value
          IN  /\ id \in DOMAIN categories
              /\ IF HasSubcategory(call.subcategory)
                 THEN /\ categories[id].name = call.subcategory
                      /\ IsRoot(categories[id].parent_id)
                      /\ categories[categories[id].parent_id].name = category
                 ELSE /\ IsRoot(id)
                      /\ categories[id].name = category
              /\ Len(categories) - Len(call.before) \in 0..2
              /\ SubSeq(categories, 1, Len(call.before)) = call.before
              /\ get_or_create_category(categories, call.category,
                                        call.subcategory)
                    = [error |-> FALSE, cats |-> categories, id |-> id]
    /\ (call.op = "get_or_create_category" /\ ret.status = "error") =>
          categories = call.before

\* A subcategory was created under a root while another root has a child of
\* its own: three roots or children, two levels.
C26_Witness ==
    /\ call.op = "get_or_create_category"
    /\ ret.status = "ok"
    /\ call.category = "Rent"
    /\ call.subcategory = "Raw Materials"
    /\ Len(categories) = 4
    /\ Len(call.before) = 2
    /\ categories[ret.value].parent_id = 3

-----------------------------------------------------------------------------
(* Conservation of the section total by the hierarchy, checked under Spec. *)

\* The sum of the values of a mapping over the keys in S.
RECURSIVE SumValues(_, _)
SumValues(f, S) ==
    IF S = {} THEN 0
    ELSE LET k == CHOOSE x \in S : TRUE
         IN  f[k] + SumValues(f, S \ {k})

\* What one entry of expenses_by_category holds for period p: its
\* subcategory values and its direct value.
EntryAt(entry, p) ==
    SumValues([s \in DOMAIN entry.subcategories |-> entry.subcategories[s][p]],
              DOMAIN entry.subcategories)
      + (IF "direct" \in DOMAIN entry THEN entry.direct[p] ELSE 0)

\* What all entries of a section hold for period p.
HierarchyAt(section, p) ==
    LET byCat == section.expenses_by_category
    IN  SumValues([c \in DOMAIN byCat |-> EntryAt(byCat[c], p)], DOMAIN byCat)

-----------------------------------------------------------------------------
(* The two formats of one report, checked under Spec.                      *)

\* The sum of a per-period mapping over the period list.
SumPeriods(f, periods) ==
    SumValues([i \in DOMAIN periods |-> f[periods[i]]], DOMAIN periods)

\* The report of the call in progress in the yearly format.
PnlYearly ==
    Pnl_report(Session(FALSE), call.start_date, call.end_date, "yearly",
               call.location)

CfYearly ==
    Cf_report(Session(FALSE), call.start_date, call.end_date, "yearly",
              call.location, call.opening_balance)

PnlMonthlyDone == PnlDone /\ call.format_type = "monthly"

CfMonthlyDone == CfDone /\ call.format_type = "monthly"

-----------------------------------------------------------------------------
(* Distinct period labels, checked under SpecPeriods.                      *)

\* The dates of the range of the call in progress.
DatesInRange ==
    { d \in Dates : DateLE(call.start_date, d) /\ DateLE(d, call.end_date) }

SameMonth(d1, d2) == d1.year = d2.year /\ d1.month = d2.month

\* C30: for every range validate_date_range accepts the labels of the
\* monthly period list are pairwise distinct, the same month of two
\* consecutive years included; two dates of the range get the same label
\* only when they are of the same calendar month, and the label of a date of
\* the range stands at exactly one position of the list.
C30_DistinctLabels ==
    /\ (/\ call.op \in PeriodsOps
        /\ call.format_type = "monthly"
        /\ RangeAccepted(call.start_date, call.end_date)) =>
          /\ Cardinality(Range(ret.value)) = Len(ret.value)
          /\ \A d1 \in DatesInRange, d2 \in DatesInRange :
                LET l1 == IF call.op = "pnl.periods"
                          THEN Pnl_assign_period(d1, "monthly", ret.value)
                          ELSE Cf_assign_period(d1, "monthly", ret.value)
                    l2 == IF call.op = "pnl.periods"
                          THEN Pnl_assign_period(d2, "monthly", ret.value)
                          ELSE Cf_assign_period(d2, "monthly", ret.value)
                IN  (l1 = l2) <=> SameMonth(d1, d2)
    /\ (/\ call.op \in AssignOps
        /\ call.format_type = "monthly"
        /\ RangeAccepted(call.start_date, call.end_date)
        /\ call.doc_date \in DatesInRange) =>
          Cardinality({ i \in DOMAIN call.periods :
                          call.periods[i] = ret.value }) = 1

\* A date of January 2025 in the range from January 2024 to January 2025:
\* the list starts with jan-24 and ends with jan-25, the date gets jan-25.
C30_Witness ==
    /\ call.op = "pnl.assign_period"
    /\ call.format_type = "monthly"
    /\ call.start_date = Date(2024, 1, 15)
    /\ call.end_date = Date(2025, 1, 31)
    /\ call.doc_date = Date(2025, 1, 15)
    /\ Len(call.periods) = 13
    /\ call.periods[1] = "jan-24"
    /\ call.periods[13] = "jan-25"
    /\ ret.value = "jan-25"

====
